---- MODULE Spec2Model ----
(***************************************************************************)
(* A model of the matching and scoring engine of teman-edu-mvp/logic.py:   *)
(* the rule gate, the five fit scorers, the readiness scorer, the action   *)
(* and recovery planners, the university matcher and the orchestrator      *)
(* evaluate_rules.                                                         *)
(*                                                                         *)
(* Conventions.                                                            *)
(*  - Python None is NoneInt for an optional number and NoneStr for an     *)
(*    optional string; a missing mapping or list is the empty sequence.    *)
(*  - A Python float score s is the integer s * Scale; a CGPA is kept in   *)
(*    hundredths (the wizard rounds it to 2 decimals, the rule column is   *)
(*    Numeric(3,2)); round(x, 2) and round(x) are round-half-to-even.      *)
(*  - A Python list is a sequence, a dict is a sequence of <<key, value>>  *)
(*    pairs in insertion order, a set is a set.                            *)
(*  - A formatted string is the tuple <<template, arg1, ...>>; a literal   *)
(*    string s is the tuple <<s>>.                                         *)
(***************************************************************************)
EXTENDS Integers, Sequences, FiniteSets, TLC

\* ------------------------------------------------------------- helpers

NoneInt == -1
NoneStr == "None"
Scale == 1200

Range(s) == {s[k] : k \in DOMAIN s}

\* Body(value), with value computed once.
With(value, Body(_)) == CHOOSE r \in {Body(x) : x \in {value}} : TRUE
Min2(a, b) == IF a <= b THEN a ELSE b
Max2(a, b) == IF a >= b THEN a ELSE b
Abs(a) == IF a < 0 THEN -a ELSE a

\* bool(x) of an optional string: None and "" are falsy.
TruthyStr(s) == s # NoneStr /\ s # ""
\* bool(x) of an optional number: None and 0 are falsy.
TruthyInt(n) == n # NoneInt /\ n # 0
\* x or 0
OrZero(n) == IF n = NoneInt THEN 0 ELSE n

\* round-half-to-even of num / den (den > 0, num >= 0), Python's round().
RoundHalfEven(num, den) ==
    With(num, LAMBDA n :
        LET q == n \div den
            r == n % den
        IN  IF 2 * r < den THEN q
            ELSE IF 2 * r > den THEN q + 1
            ELSE IF q % 2 = 0 THEN q ELSE q + 1)

\* round(score, 2), in hundredths.
Round2(score) == RoundHalfEven(score * 100, Scale)

GRADE_SCALE ==
    [g \in {"G", "E", "D", "C", "C+", "B", "B+", "A-", "A", "A+"} |->
        CASE g = "G" -> 0 [] g = "E" -> 1 [] g = "D" -> 2 [] g = "C" -> 3
          [] g = "C+" -> 4 [] g = "B" -> 5 [] g = "B+" -> 6 [] g = "A-" -> 7
          [] g = "A" -> 8 [] g = "A+" -> 9]

ENGLISH_LEVELS ==
    [l \in {"Beginner", "Intermediate", "Advanced"} |->
        CASE l = "Beginner" -> 0 [] l = "Intermediate" -> 1 [] l = "Advanced" -> 2]

MONTH_TO_NUM ==
    [m \in {"january", "february", "march", "april", "may", "june", "july",
            "august", "september", "october", "november", "december"} |->
        CASE m = "january" -> 1 [] m = "february" -> 2 [] m = "march" -> 3
          [] m = "april" -> 4 [] m = "may" -> 5 [] m = "june" -> 6
          [] m = "july" -> 7 [] m = "august" -> 8 [] m = "september" -> 9
          [] m = "october" -> 10 [] m = "november" -> 11 [] m = "december" -> 12]

\* dict.get(key, default) on the three lookup tables.
DictGet(table, key, default) == IF key \in DOMAIN table THEN table[key] ELSE default

\* str.strip() on the strings the model uses: surrounding blanks are dropped.
Strip(s) ==
    CASE s = " IT " -> "IT"
      [] s = " " -> ""
      [] OTHER -> s

\* str.lower() on the strings the model uses.
Lower(s) ==
    CASE s = "IT" -> "it"
      [] s = "Business" -> "business"
      [] s = "Engineering" -> "engineering"
      [] s = "Data" -> "data"
      [] s = "Malaysia" -> "malaysia"
      [] s = "MALAYSIA" -> "malaysia"
      [] s = "UK" -> "uk"
      [] s = "Australia" -> "australia"
      [] s = "AUSTRALIA" -> "australia"
      [] s = "Singapore" -> "singapore"
      [] s = "Math" -> "math"
      [] s = "English" -> "english"
      [] s = "March" -> "march"
      [] s = "September" -> "september"
      [] s = "January" -> "january"
      [] s = "June" -> "june"
      [] s = "General" -> "general"
      [] s = "High" -> "high"
      [] s = "Medium" -> "medium"
      [] s = "Low" -> "low"
      [] OTHER -> s

\* str.upper() on the grades the model uses.
Upper(s) ==
    CASE s = "a" -> "A"
      [] s = "b" -> "B"
      [] s = "c" -> "C"
      [] s = "d" -> "D"
      [] s = "b+" -> "B+"
      [] OTHER -> s

\* _norm_set: {v.strip().lower() for v in values if str(v).strip()}
_norm_set(values) == {Lower(Strip(v)) : v \in {w \in Range(values) : Strip(w) # ""}}

\* _as_list on a list: [str(item).strip() for item in value if str(item).strip()]
_as_list(value) ==
    LET F[k \in 0..Len(value)] ==
            IF k = 0 THEN <<>>
            ELSE IF Strip(value[k]) # "" THEN Append(F[k - 1], Strip(value[k]))
            ELSE F[k - 1]
    IN  F[Len(value)]

\* {k.lower(): v for k, v in subjects.items()}: a later key overrides an
\* earlier one with the same lower-case form; the lookup is .get(name).
SubjectGrade(subjects, name) ==
    LET hits == {k \in DOMAIN subjects : Lower(subjects[k][1]) = name}
    IN  IF hits = {} THEN NoneStr
        ELSE subjects[CHOOSE k \in hits : \A j \in hits : j <= k][2]

\* grade_meets_requirement with a required grade off the scale read as the
\* lowest grade.
grade_meets_requirement_lenient(student_grade, required_grade) ==
    DictGet(GRADE_SCALE, Upper(IF TruthyStr(student_grade) THEN student_grade ELSE ""), -1)
        >= DictGet(GRADE_SCALE, Upper(IF TruthyStr(required_grade) THEN required_grade ELSE ""), 0)

grade_meets_requirement(student_grade, required_grade) ==
    DictGet(GRADE_SCALE, Upper(IF TruthyStr(student_grade) THEN student_grade ELSE ""), -1)
        >= DictGet(GRADE_SCALE, Upper(IF TruthyStr(required_grade) THEN required_grade ELSE ""), 99)

english_meets_requirement(student_level, required_level) ==
    DictGet(ENGLISH_LEVELS, student_level, -1) >= DictGet(ENGLISH_LEVELS, required_level, 99)

\* student_input.get(key, default) for a key the profile may lack.
GetStr(value, default) == IF value = NoneStr THEN default ELSE value

\* ---------------------------------------------------------------- gate

\* The rule's destination set, rule.destination_tags or ["malaysia"].
RuleDestinations(rule) ==
    _norm_set(IF rule.destination_tags = <<>> THEN <<"malaysia">> ELSE rule.destination_tags)

\* The subject loop without its early return: it goes on after a failing
\* subject and collects a reason for each.
GateSubjectsAccumulating(g, required_subjects, subjects) ==
    LET F[k \in 0..Len(required_subjects)] ==
            IF k = 0 THEN g
            ELSE With(F[k - 1], LAMBDA prev :
              LET subject == required_subjects[k][1]
                  needed_grade == required_subjects[k][2]
                  student_grade == SubjectGrade(subjects, Lower(subject))
              IN  IF ~TruthyStr(student_grade) THEN
                      [prev EXCEPT !.passed = FALSE,
                           !.missing = Append(@, <<"Missing subject grade for {subject}", subject>>)]
                  ELSE IF ~grade_meets_requirement(student_grade, needed_grade) THEN
                      [prev EXCEPT !.passed = FALSE,
                           !.missing = Append(@, <<"{subject} below {needed_grade}", subject, needed_grade>>)]
                  ELSE IF Upper(student_grade) = Upper(needed_grade) THEN
                      [prev EXCEPT !.borderline =
                           Append(@, <<"{subject} at threshold {needed_grade}", subject, needed_grade>>)]
                  ELSE
                      [prev EXCEPT !.matched = Append(@, <<"{subject} requirement", subject>>)])
    IN  F[Len(required_subjects)]

\* The loop over required_subjects_json.items(): the state after the
\* first k subjects, stopping at the first failure.
GateSubjects(g, required_subjects, subjects) ==
    LET F[k \in 0..Len(required_subjects)] ==
            IF k = 0 THEN g
            ELSE With(F[k - 1], LAMBDA prev :
              LET subject == required_subjects[k][1]
                  needed_grade == required_subjects[k][2]
                  student_grade == SubjectGrade(subjects, Lower(subject))
              IN  IF ~prev.passed THEN prev
                  ELSE IF ~TruthyStr(student_grade) THEN
                      [prev EXCEPT !.passed = FALSE,
                           !.missing = Append(@, <<"Missing subject grade for {subject}", subject>>)]
                  ELSE IF ~grade_meets_requirement(student_grade, needed_grade) THEN
                      [prev EXCEPT !.passed = FALSE,
                           !.missing = Append(@, <<"{subject} below {needed_grade}", subject, needed_grade>>)]
                  ELSE IF Upper(student_grade) = Upper(needed_grade) THEN
                      [prev EXCEPT !.borderline =
                           Append(@, <<"{subject} at threshold {needed_grade}", subject, needed_grade>>)]
                  ELSE
                      [prev EXCEPT !.matched = Append(@, <<"{subject} requirement", subject>>)])
    IN  F[Len(required_subjects)]

\* Each Gate* step takes the gate's state g = [passed, matched, borderline,
\* missing] and returns it after the check; a failed gate is left as it is
\* (the code has returned).

GateActive(g, rule) ==
    IF ~rule.active
    THEN [g EXCEPT !.passed = FALSE, !.missing = Append(@, <<"Rule inactive">>)]
    ELSE g

\* The level check letting a profile through when its level is neither of
\* the two the rules know.
GateLevelUnrecognizedPasses(g, rule, student_input) ==
    IF ~g.passed THEN g
    ELSE IF rule.student_level # student_input.student_level
            /\ student_input.student_level \in {"SPM", "Diploma"}
    THEN [g EXCEPT !.passed = FALSE, !.missing = Append(@, <<"Student level mismatch">>)]
    ELSE [g EXCEPT !.matched = Append(@, <<"Student level">>)]

GateLevel(g, rule, student_input) ==
    IF ~g.passed THEN g
    ELSE IF rule.student_level # student_input.student_level
    THEN [g EXCEPT !.passed = FALSE, !.missing = Append(@, <<"Student level mismatch">>)]
    ELSE [g EXCEPT !.matched = Append(@, <<"Student level">>)]

GateSpm(g, rule, student_input) ==
    IF ~g.passed \/ student_input.student_level # "SPM" THEN g
    ELSE
      LET min_credits == rule.min_spm_credits
          credits == OrZero(student_input.spm_credits)
          g1 == IF min_credits = NoneInt THEN g
                ELSE IF credits < min_credits THEN
                    [g EXCEPT !.passed = FALSE,
                         !.missing = Append(@, <<"SPM credits {credits} < {min_credits}", credits, min_credits>>)]
                ELSE IF credits = min_credits THEN
                    [g EXCEPT !.borderline = Append(@, <<"SPM credits at threshold">>)]
                ELSE [g EXCEPT !.matched = Append(@, <<"SPM credits">>)]
      IN  IF ~g1.passed THEN g1
          ELSE GateSubjects(g1, rule.required_subjects_json, student_input.subjects)

GateDiploma(g, rule, student_input) ==
    IF ~g.passed \/ student_input.student_level # "Diploma" THEN g
    ELSE
      LET min_cgpa == rule.min_cgpa
          cgpa == OrZero(student_input.cgpa)
      IN  IF min_cgpa = NoneInt THEN g
          ELSE IF cgpa < min_cgpa THEN
              [g EXCEPT !.passed = FALSE,
                   !.missing = Append(@, <<"CGPA {cgpa:.2f} < {min_cgpa_value:.2f}", cgpa, min_cgpa>>)]
          ELSE IF Abs(cgpa - min_cgpa) < 5 THEN
              [g EXCEPT !.borderline = Append(@, <<"CGPA at threshold">>)]
          ELSE [g EXCEPT !.matched = Append(@, <<"CGPA requirement">>)]

\* The budget check without its 80% band: any budget under budget_min fails.
GateBudgetStrict(g, rule, student_input) ==
    IF ~g.passed THEN g
    ELSE
      LET budget_monthly == OrZero(student_input.budget_monthly)
          budget_min == rule.budget_min
      IN  IF ~TruthyInt(budget_min) THEN g
          ELSE IF budget_monthly < budget_min THEN
              [g EXCEPT !.passed = FALSE,
                    !.missing = Append(@, <<"Budget below pathway minimum">>)]
          ELSE [g EXCEPT !.matched = Append(@, <<"Budget minimum">>)]

GateBudget(g, rule, student_input) ==
    IF ~g.passed THEN g
    ELSE
      LET budget_monthly == OrZero(student_input.budget_monthly)
          budget_min == rule.budget_min
      IN  IF ~TruthyInt(budget_min) THEN g
          ELSE IF budget_monthly < budget_min THEN
              IF 10 * budget_monthly >= 8 * budget_min
              THEN [g EXCEPT !.borderline = Append(@, <<"Budget slightly below pathway minimum">>)]
              ELSE [g EXCEPT !.passed = FALSE,
                        !.missing = Append(@, <<"Budget below pathway minimum">>)]
          ELSE [g EXCEPT !.matched = Append(@, <<"Budget minimum">>)]

\* The English check with an equal level recorded as matched.
GateEnglishAtOrAbove(g, rule, student_input) ==
    IF ~g.passed THEN g
    ELSE
      LET required_english == rule.english_min
          student_english == GetStr(student_input.english_self, "Beginner")
          student_level_int == DictGet(ENGLISH_LEVELS, student_english, 0)
          required_level_int == DictGet(ENGLISH_LEVELS, required_english, 2)
      IN  IF ~TruthyStr(required_english) THEN g
          ELSE IF student_level_int < required_level_int - 1 THEN
              [g EXCEPT !.passed = FALSE,
                   !.missing = Append(@, <<"English level significantly below requirement">>)]
          ELSE IF student_level_int < required_level_int THEN
              [g EXCEPT !.borderline = Append(@, <<"English one level below requirement">>)]
          ELSE [g EXCEPT !.matched = Append(@, <<"English readiness">>)]

GateEnglish(g, rule, student_input) ==
    IF ~g.passed THEN g
    ELSE
      LET required_english == rule.english_min
          student_english == GetStr(student_input.english_self, "Beginner")
          student_level_int == DictGet(ENGLISH_LEVELS, student_english, 0)
          required_level_int == DictGet(ENGLISH_LEVELS, required_english, 2)
      IN  IF ~TruthyStr(required_english) THEN g
          ELSE IF student_level_int < required_level_int - 1 THEN
              [g EXCEPT !.passed = FALSE,
                   !.missing = Append(@, <<"English level significantly below requirement">>)]
          ELSE IF student_level_int < required_level_int THEN
              [g EXCEPT !.borderline = Append(@, <<"English one level below requirement">>)]
          ELSE IF student_level_int = required_level_int THEN
              [g EXCEPT !.borderline = Append(@, <<"English at threshold">>)]
          ELSE [g EXCEPT !.matched = Append(@, <<"English readiness">>)]

\* The destination check with a mismatch under open_overseas taken as a
\* failure instead of a borderline condition.
GateDestinationMismatchFails(g, rule, student_input) ==
    IF ~g.passed THEN g
    ELSE
      LET destinations == RuleDestinations(rule)
          preference == GetStr(student_input.destination_preference, "malaysia_only")
          selected_destinations ==
              _norm_set(IF student_input.destination_tags = <<>> THEN <<"malaysia">>
                        ELSE student_input.destination_tags)
          g1 == IF preference = "malaysia_only" /\ "malaysia" \notin destinations
                THEN [g EXCEPT !.passed = FALSE,
                          !.missing = Append(@, <<"Overseas-only pathway while student chose Malaysia only">>)]
                ELSE IF preference = "open_overseas" /\ selected_destinations # {}
                THEN IF destinations # {} /\ destinations \cap selected_destinations = {}
                          /\ "malaysia" \notin destinations
                     THEN [g EXCEPT !.passed = FALSE,
                               !.missing = Append(@, <<"Destination preference not directly matched">>)]
                     ELSE [g EXCEPT !.matched = Append(@, <<"Destination preference">>)]
                ELSE g
      IN  IF ~g1.passed THEN g1
          ELSE IF ~student_input.willing_relocate /\ "malaysia" \notin destinations
          THEN [g1 EXCEPT !.passed = FALSE, !.missing = Append(@, <<"Relocation not preferred">>)]
          ELSE g1

\* The destination check without the relocation check that follows it.
GateDestinationOnly(g, rule, student_input) ==
    IF ~g.passed THEN g
    ELSE
      LET destinations == RuleDestinations(rule)
          preference == GetStr(student_input.destination_preference, "malaysia_only")
          selected_destinations ==
              _norm_set(IF student_input.destination_tags = <<>> THEN <<"malaysia">>
                        ELSE student_input.destination_tags)
      IN  IF preference = "malaysia_only" /\ "malaysia" \notin destinations
          THEN [g EXCEPT !.passed = FALSE,
                    !.missing = Append(@, <<"Overseas-only pathway while student chose Malaysia only">>)]
          ELSE IF preference = "open_overseas" /\ selected_destinations # {}
          THEN IF destinations # {} /\ destinations \cap selected_destinations = {}
                    /\ "malaysia" \notin destinations
               THEN [g EXCEPT !.borderline = Append(@, <<"Destination preference not directly matched">>)]
               ELSE [g EXCEPT !.matched = Append(@, <<"Destination preference">>)]
          ELSE g

GateDestination(g, rule, student_input) ==
    IF ~g.passed THEN g
    ELSE
      LET destinations == RuleDestinations(rule)
          preference == GetStr(student_input.destination_preference, "malaysia_only")
          selected_destinations ==
              _norm_set(IF student_input.destination_tags = <<>> THEN <<"malaysia">>
                        ELSE student_input.destination_tags)
          g1 == IF preference = "malaysia_only" /\ "malaysia" \notin destinations
                THEN [g EXCEPT !.passed = FALSE,
                          !.missing = Append(@, <<"Overseas-only pathway while student chose Malaysia only">>)]
                ELSE IF preference = "open_overseas" /\ selected_destinations # {}
                THEN IF destinations # {} /\ destinations \cap selected_destinations = {}
                          /\ "malaysia" \notin destinations
                     THEN [g EXCEPT !.borderline = Append(@, <<"Destination preference not directly matched">>)]
                     ELSE [g EXCEPT !.matched = Append(@, <<"Destination preference">>)]
                ELSE g
      IN  IF ~g1.passed THEN g1
          ELSE IF ~student_input.willing_relocate /\ "malaysia" \notin destinations
          THEN [g1 EXCEPT !.passed = FALSE, !.missing = Append(@, <<"Relocation not preferred">>)]
          ELSE g1

evaluate_rule_gate(rule, student_input) ==
    LET g0 == [passed |-> TRUE, matched |-> <<>>, borderline |-> <<>>, missing |-> <<>>]
    IN  With(GateActive(g0, rule), LAMBDA g1 :
        With(GateLevel(g1, rule, student_input), LAMBDA g2 :
        With(GateSpm(g2, rule, student_input), LAMBDA g3 :
        With(GateDiploma(g3, rule, student_input), LAMBDA g4 :
        With(GateBudget(g4, rule, student_input), LAMBDA g5 :
        With(GateEnglish(g5, rule, student_input), LAMBDA g6 :
        GateDestination(g6, rule, student_input)))))))

\* ------------------------------------------------------------- scorers

\* ScoreDetail(score, matched, borderline, missing)
ScoreDetail(score, matched, borderline, missing) ==
    [score |-> score, matched |-> matched, borderline |-> borderline, missing |-> missing]

\* isinstance(test_score, (int, float)) and test_score >= 75
TestScoreHigh(student_input) ==
    student_input.english_test_score # NoneInt /\ student_input.english_test_score >= 75

score_interest(rule, student_input) ==
    LET rule_tags == _norm_set(rule.interest_tags)
        student_tags == _norm_set(student_input.interest_tags)
        overlap == rule_tags \cap student_tags
        missing_tags == rule_tags \ student_tags
        \* 30 * (len(overlap) / len(rule_tags))
        score == (30 * Scale * Cardinality(overlap)) \div Cardinality(rule_tags)
    IN  IF rule_tags = {} THEN ScoreDetail(15 * Scale, <<(<<"Flexible interest tags">>)>>, <<>>, <<>>)
        ELSE ScoreDetail(
               score,
               IF overlap # {} THEN <<(<<"Interest match: {sorted(overlap)}", overlap>>)>> ELSE <<>>,
               IF overlap # {} /\ overlap # rule_tags THEN <<(<<"Partial interest overlap">>)>> ELSE <<>>,
               IF missing_tags # {} THEN <<(<<"Interest tags missing: {missing_tags}", missing_tags>>)>> ELSE <<>>)

\* The subject loop of score_academic: [satisfied, missing] after all subjects.
AcademicSubjects(required_subjects, subjects) ==
    LET F[k \in 0..Len(required_subjects)] ==
            IF k = 0 THEN [satisfied |-> 0, missing |-> <<>>]
            ELSE
              LET prev == F[k - 1]
                  subject == required_subjects[k][1]
                  needed == required_subjects[k][2]
                  got == SubjectGrade(subjects, Lower(subject))
              IN  IF TruthyStr(got) /\ grade_meets_requirement(got, needed)
                  THEN [prev EXCEPT !.satisfied = @ + 1]
                  ELSE [prev EXCEPT !.missing = Append(@, <<"Subject strengthen needed: {subject}", subject>>)]
    IN  F[Len(required_subjects)]

\* The credit score with the ratio upside down, min_credits / credits.
SpmCreditScoreInverted(min_credits, credits) ==
    IF credits = 0 THEN 0
    ELSE Min2(15 * Scale, (Min2((12 * Scale) \div 10, (min_credits * Scale) \div credits) * 25) \div 2)

\* min(15.0, min(1.2, credits / float(min_credits)) * 12.5)
SpmCreditScore(min_credits, credits) ==
    Min2(15 * Scale, (Min2((12 * Scale) \div 10, (credits * Scale) \div min_credits) * 25) \div 2)

AcademicSpm(rule, student_input) ==
    LET min_credits == rule.min_spm_credits
        credits == OrZero(student_input.spm_credits)
        required_subjects == rule.required_subjects_json
        subj == AcademicSubjects(required_subjects, student_input.subjects)
        credit_score ==
            IF TruthyInt(min_credits) THEN SpmCreditScore(min_credits, credits) ELSE 0
        \* 10 * (satisfied / max(1, len(required_subjects)))
        subject_score ==
            IF Len(required_subjects) > 0
            THEN (10 * Scale * subj.satisfied) \div Max2(1, Len(required_subjects))
            ELSE 0
        m1 == IF TruthyInt(min_credits) /\ credits > min_credits
              THEN <<(<<"Credits above baseline">>)>> ELSE <<>>
        b1 == IF TruthyInt(min_credits) /\ credits = min_credits
              THEN <<(<<"Credits at baseline">>)>> ELSE <<>>
        m2 == IF Len(required_subjects) > 0 /\ subj.satisfied = Len(required_subjects)
              THEN <<(<<"All key subjects met">>)>> ELSE <<>>
    IN  ScoreDetail(credit_score + subject_score, m1 \o m2, b1,
                    IF Len(required_subjects) > 0 THEN subj.missing ELSE <<>>)

AcademicDiploma(rule, student_input) ==
    LET min_cgpa == rule.min_cgpa
        cgpa == OrZero(student_input.cgpa)
        \* min(25.0, min(1.25, cgpa / min_cgpa) * 20)
        score == Min2(25 * Scale, Min2((20 * 125 * Scale) \div 100, (20 * cgpa * Scale) \div min_cgpa))
    IN  IF ~TruthyInt(min_cgpa) THEN ScoreDetail(18 * Scale, <<>>, <<>>, <<>>)
        ELSE IF cgpa > min_cgpa + 10 THEN ScoreDetail(score, <<(<<"CGPA above baseline">>)>>, <<>>, <<>>)
        ELSE IF cgpa >= min_cgpa THEN ScoreDetail(score, <<>>, <<(<<"CGPA near baseline">>)>>, <<>>)
        ELSE ScoreDetail(score, <<>>, <<>>, <<(<<"CGPA below desired range">>)>>)

score_academic(rule, student_input) ==
    LET level == student_input.student_level
        d == IF level = "SPM" THEN AcademicSpm(rule, student_input)
             ELSE IF level = "Diploma" THEN AcademicDiploma(rule, student_input)
             ELSE ScoreDetail(0, <<>>, <<>>, <<>>)
    IN  [d EXCEPT !.score = Min2(@, 25 * Scale)]

\* score_budget with the threshold of the gate, 80% of budget_min, in place
\* of its own 85%.
score_budget_at_gate_threshold(rule, student_input) ==
    LET budget_monthly == OrZero(student_input.budget_monthly)
        budget_min == rule.budget_min
        budget_max == rule.budget_max
    IN  IF ~TruthyInt(budget_min) /\ ~TruthyInt(budget_max)
        THEN ScoreDetail(15 * Scale, <<(<<"Budget flexible">>)>>, <<>>, <<>>)
        ELSE IF TruthyInt(budget_min) /\ budget_monthly < budget_min
        THEN IF 100 * budget_monthly >= 80 * budget_min
             THEN ScoreDetail(10 * Scale, <<>>, <<(<<"Budget slightly tight">>)>>,
                              <<(<<"Consider scholarship or part-time support">>)>>)
             ELSE ScoreDetail(2 * Scale, <<>>, <<>>, <<(<<"Budget significantly below pathway cost">>)>>)
        ELSE IF TruthyInt(budget_max) /\ budget_monthly > budget_max
        THEN ScoreDetail(14 * Scale, <<(<<"Budget exceeds expected cost range">>)>>, <<>>, <<>>)
        ELSE ScoreDetail(20 * Scale, <<(<<"Budget aligned with pathway">>)>>, <<>>, <<>>)

score_budget(rule, student_input) ==
    LET budget_monthly == OrZero(student_input.budget_monthly)
        budget_min == rule.budget_min
        budget_max == rule.budget_max
    IN  IF ~TruthyInt(budget_min) /\ ~TruthyInt(budget_max)
        THEN ScoreDetail(15 * Scale, <<(<<"Budget flexible">>)>>, <<>>, <<>>)
        ELSE IF TruthyInt(budget_min) /\ budget_monthly < budget_min
        THEN IF 100 * budget_monthly >= 85 * budget_min
             THEN ScoreDetail(10 * Scale, <<>>, <<(<<"Budget slightly tight">>)>>,
                              <<(<<"Consider scholarship or part-time support">>)>>)
             ELSE ScoreDetail(2 * Scale, <<>>, <<>>, <<(<<"Budget significantly below pathway cost">>)>>)
        ELSE IF TruthyInt(budget_max) /\ budget_monthly > budget_max
        THEN ScoreDetail(14 * Scale, <<(<<"Budget exceeds expected cost range">>)>>, <<>>, <<>>)
        ELSE ScoreDetail(20 * Scale, <<(<<"Budget aligned with pathway">>)>>, <<>>, <<>>)

score_english(rule, student_input) ==
    LET required == rule.english_min
        actual == GetStr(student_input.english_self, "Beginner")
        req == DictGet(ENGLISH_LEVELS, required, 2)
        got == DictGet(ENGLISH_LEVELS, actual, 0)
        bonus == IF TestScoreHigh(student_input) THEN 3 * Scale ELSE 0
    IN  IF ~TruthyStr(required)
        THEN ScoreDetail(10 * Scale + bonus, <<(<<"No strict English minimum">>)>>, <<>>, <<>>)
        ELSE IF got >= req
        THEN ScoreDetail(Min2(15 * Scale, 12 * Scale + bonus),
                         <<(IF got > req THEN <<"English above minimum">> ELSE <<"English meets minimum">>)>>,
                         <<>>, <<>>)
        ELSE IF got = req - 1
        THEN ScoreDetail(7 * Scale, <<>>, <<(<<"English one level below requirement">>)>>,
                         <<(<<"Strengthen English proficiency">>)>>)
        ELSE ScoreDetail(2 * Scale, <<>>, <<>>, <<(<<"English below pathway baseline">>)>>)

\* The four deductions of score_constraints, each [score, matched,
\* borderline, missing] after the step.
ConstraintsScholarship(d, rule, student_input) ==
    LET scholarship_band ==
            Lower(IF TruthyStr(rule.scholarship_likelihood) THEN rule.scholarship_likelihood ELSE "Medium")
    IN  IF ~student_input.scholarship_needed THEN d
        ELSE IF scholarship_band = "high"
        THEN [d EXCEPT !.matched = Append(@, <<"Scholarship-friendly pathway">>)]
        ELSE IF scholarship_band = "medium"
        THEN [d EXCEPT !.borderline = Append(@, <<"Scholarship possible but competitive">>),
                  !.score = @ - (25 * Scale) \div 10]
        ELSE [d EXCEPT !.missing = Append(@, <<"Low scholarship likelihood">>),
                  !.score = @ - 5 * Scale]

ConstraintsPartTime(d, rule, student_input) ==
    LET needs_part_time == student_input.need_work_part_time
        rule_allows_part_time == rule.constraints_json.work_part_time_ok
    IN  IF needs_part_time /\ ~rule_allows_part_time
        THEN [d EXCEPT !.missing = Append(@, <<"Part-time work not recommended for this pathway">>),
                  !.score = @ - 4 * Scale]
        ELSE IF needs_part_time /\ rule_allows_part_time
        THEN [d EXCEPT !.matched = Append(@, <<"Part-time compatible">>)]
        ELSE d

ConstraintsTimeline(d, rule, student_input) ==
    LET urgency == GetStr(student_input.timeline_urgency, "normal")
    IN  IF urgency = "urgent" /\ rule.constraints_json.timeline_fast_track
        THEN [d EXCEPT !.matched = Append(@, <<"Fast-track timeline fit">>)]
        ELSE IF urgency = "urgent"
        THEN [d EXCEPT !.borderline = Append(@, <<"Timeline may require bridging steps">>),
                  !.score = @ - (15 * Scale) \div 10]
        ELSE d

ConstraintsFamily(d, student_input) ==
    IF GetStr(student_input.family_constraints, "none") # "none"
    THEN [d EXCEPT !.borderline = Append(@, <<"Family constraints require planning">>),
              !.score = @ - Scale]
    ELSE d

\* score_constraints returning score in place of max(score, 0.0).
score_constraints_unfloored(rule, student_input) ==
    With(ConstraintsScholarship(ScoreDetail(10 * Scale, <<>>, <<>>, <<>>), rule, student_input), LAMBDA d1 :
    With(ConstraintsPartTime(d1, rule, student_input), LAMBDA d2 :
    With(ConstraintsTimeline(d2, rule, student_input), LAMBDA d3 :
    ConstraintsFamily(d3, student_input))))

score_constraints(rule, student_input) ==
    With(ConstraintsScholarship(ScoreDetail(10 * Scale, <<>>, <<>>, <<>>), rule, student_input), LAMBDA d1 :
    With(ConstraintsPartTime(d1, rule, student_input), LAMBDA d2 :
    With(ConstraintsTimeline(d2, rule, student_input), LAMBDA d3 :
    With(ConstraintsFamily(d3, student_input), LAMBDA d4 :
    [d4 EXCEPT !.score = Max2(@, 0)]))))

\* compute_fit_score with the constraints score left out of the sum.
compute_fit_score_without_constraints(rule, student_input) ==
    With(score_interest(rule, student_input), LAMBDA interest :
    With(score_academic(rule, student_input), LAMBDA academic :
    With(score_budget(rule, student_input), LAMBDA budget :
    With(score_english(rule, student_input), LAMBDA english :
    With(score_constraints(rule, student_input), LAMBDA constraints :
        [fit_score |->
             Round2(interest.score + academic.score + budget.score + english.score),
         component_scores |->
             [interest |-> Round2(interest.score), academic |-> Round2(academic.score),
              budget |-> Round2(budget.score), english |-> Round2(english.score),
              constraints |-> Round2(constraints.score)],
         explanation |->
             [matched_conditions |->
                  interest.matched \o academic.matched \o budget.matched \o english.matched \o constraints.matched,
              borderline_conditions |->
                  interest.borderline \o academic.borderline \o budget.borderline \o english.borderline
                      \o constraints.borderline,
              missing_conditions |->
                  interest.missing \o academic.missing \o budget.missing \o english.missing \o constraints.missing]]
    )))))

compute_fit_score(rule, student_input) ==
    With(score_interest(rule, student_input), LAMBDA interest :
    With(score_academic(rule, student_input), LAMBDA academic :
    With(score_budget(rule, student_input), LAMBDA budget :
    With(score_english(rule, student_input), LAMBDA english :
    With(score_constraints(rule, student_input), LAMBDA constraints :
        [fit_score |->
             Round2(interest.score + academic.score + budget.score + english.score + constraints.score),
         component_scores |->
             [interest |-> Round2(interest.score), academic |-> Round2(academic.score),
              budget |-> Round2(budget.score), english |-> Round2(english.score),
              constraints |-> Round2(constraints.score)],
         explanation |->
             [matched_conditions |->
                  interest.matched \o academic.matched \o budget.matched \o english.matched \o constraints.matched,
              borderline_conditions |->
                  interest.borderline \o academic.borderline \o budget.borderline \o english.borderline
                      \o constraints.borderline,
              missing_conditions |->
                  interest.missing \o academic.missing \o budget.missing \o english.missing \o constraints.missing]]
    )))))

\* English readiness after the test-score adjustment.
ReadinessEnglish(student_input) ==
    LET english_level == DictGet(ENGLISH_LEVELS, GetStr(student_input.english_self, "Beginner"), 0)
        base == CASE english_level = 0 -> 10 * Scale
                  [] english_level = 1 -> 18 * Scale
                  [] english_level = 2 -> 25 * Scale
        test_score == student_input.english_test_score
    IN  IF test_score = NoneInt THEN base
        ELSE IF test_score >= 75 THEN Min2(25 * Scale, base + 3 * Scale)
        ELSE IF test_score < 50 THEN base - 2 * Scale
        ELSE base

\* The academic part without its cap: (credits / 8.0) * 40.0 and
\* (cgpa / 4.0) * 40.0.
ReadinessAcademicUncapped(student_input) ==
    LET level == student_input.student_level
    IN  IF level = "Diploma" THEN (OrZero(student_input.cgpa) * Scale) \div 10
        ELSE IF level = "SPM" THEN 5 * Scale * OrZero(student_input.spm_credits)
        ELSE 0

\* min(40.0, (credits / 8.0) * 40.0), min(40.0, (cgpa / 4.0) * 40.0)
ReadinessAcademic(student_input) ==
    LET level == student_input.student_level
    IN  IF level = "Diploma" THEN Min2(40 * Scale, (OrZero(student_input.cgpa) * Scale) \div 10)
        ELSE IF level = "SPM" THEN Min2(40 * Scale, 5 * Scale * OrZero(student_input.spm_credits))
        ELSE 0

compute_readiness_score(student_input) ==
    LET academic_score == ReadinessAcademic(student_input)
        english_score == ReadinessEnglish(student_input)
        budget_monthly == OrZero(student_input.budget_monthly)
        budget_score == IF budget_monthly >= 1500 THEN 20 * Scale
                        ELSE IF budget_monthly >= 800 THEN 12 * Scale ELSE 6 * Scale
        \* min(15.0, (len(checklist) / 5.0) * 15.0)
        checklist_score == Min2(15 * Scale, 3 * Scale * Len(student_input.preparedness_checklist))
        total == RoundHalfEven(
                   Min2(100 * Scale, academic_score + english_score + budget_score + checklist_score), Scale)
    IN  [readiness_score |-> total,
         breakdown |-> [academic |-> Round2(academic_score), english |-> Round2(english_score),
                        budget |-> Round2(budget_score), preparedness |-> Round2(checklist_score)]]

\* ------------------------------------------------------------ planners

\* s[:n]
Take(s, n) == With(s, LAMBDA t : SubSeq(t, 1, Min2(Len(t), Max2(n, 0))))

\* list.sort(key=..., reverse=True) and sorted(..., reverse=True): a stable
\* descending sort; elements with equal keys keep their order. KeyLess(a, b)
\* is key(a) < key(b).
SortDesc(s, KeyLess(_, _)) ==
    With(s, LAMBDA t :
        LET Insert(sorted, x) ==
                LET before == {k \in 1..Len(sorted) : KeyLess(sorted[k], x)}
                    pos == IF before = {} THEN Len(sorted) + 1
                           ELSE CHOOSE k \in before : \A j \in before : k <= j
                IN  SubSeq(sorted, 1, pos - 1) \o <<x>> \o SubSeq(sorted, pos, Len(sorted))
            F[k \in 0..Len(t)] ==
                IF k = 0 THEN <<>> ELSE With(F[k - 1], LAMBDA sorted : Insert(sorted, t[k]))
        IN  F[Len(t)])

\* "English" in item, for the strings that reach build_action_plan.
MentionsEnglish(item) ==
    item[1] \in {"English level significantly below requirement",
                 "English one level below requirement",
                 "English at threshold",
                 "English readiness",
                 "English below pathway baseline",
                 "Strengthen English proficiency",
                 "English above minimum",
                 "English meets minimum",
                 "No strict English minimum"}
    \/ (item[1] \in {"Missing subject grade for {subject}", "{subject} below {needed_grade}",
                     "Subject strengthen needed: {subject}"}
        /\ item[2] = "English")

build_action_plan(student_input, missing_items) ==
    LET seven_day ==
            << <<"Shortlist two realistic pathways and discuss with a counselor/mentor.">>,
               <<"Collect latest academic transcript and supporting documents.">>,
               <<"Draft a simple CV and personal statement outline.">> >>
            \o (IF \E k \in DOMAIN missing_items : MentionsEnglish(missing_items[k])
                THEN <<(<<"Take a free English placement test and set a target score.">>)>> ELSE <<>>)
        thirty_day ==
            << <<"Follow a weekly English improvement routine (speaking + writing).">>,
               <<"Build one portfolio artifact relevant to your target field.">>,
               <<"Contact at least 3 institutions for entry and cost clarification.">>,
               <<"Track scholarship deadlines and required documents.">> >>
            \o (IF student_input.scholarship_needed
                THEN <<(<<"Prepare scholarship narrative and referee contact list.">>)>> ELSE <<>>)
            \o (IF student_input.need_work_part_time
                THEN <<(<<"Map study schedule with legal and institution work limits.">>)>> ELSE <<>>)
    IN  [seven_day_actions |-> Take(seven_day, 5), thirty_day_plan |-> Take(thirty_day, 6)]

\* The decimal digits of n >= 0, as str(n) writes them.
Digits(n) ==
    LET F[m \in 0..n] == IF m < 10 THEN <<m>> ELSE Append(F[m \div 10], m % 10)
    IN  F[n]

\* Lexicographic a < b on sequences of numbers (a proper prefix is smaller).
LexLess(a, b) ==
    \E k \in 1..(Min2(Len(a), Len(b)) + 1) :
        /\ \A j \in 1..(k - 1) : a[j] = b[j]
        /\ \/ (k > Len(a) /\ k <= Len(b))
           \/ (k <= Len(a) /\ k <= Len(b) /\ a[k] < b[k])

\* Where a subject name sorts among the strings of the model.
SubjectOrder(subject) ==
    CASE subject = "English" -> 1
      [] subject = "Math" -> 2
      [] subject = "english" -> 3
      [] subject = "math" -> 4
      [] OTHER -> 5

\* Where a grade sorts as a string.
GradeOrder(grade) ==
    CASE grade = "A" -> 1 [] grade = "A+" -> 2 [] grade = "A-" -> 3 [] grade = "B" -> 4
      [] grade = "B+" -> 5 [] grade = "C" -> 6 [] grade = "C+" -> 7 [] grade = "D" -> 8
      [] grade = "E" -> 9 [] grade = "G" -> 10 [] grade = "X" -> 11
      [] grade = "a" -> 12 [] grade = "b" -> 13 [] grade = "b+" -> 14 [] grade = "c" -> 15
      [] OTHER -> 16

\* A key that orders the gate's rejection reasons as Python orders the
\* formatted strings: by first letter and template, then by the arguments.
ReasonKey(item) ==
    CASE item[1] = "Budget below pathway minimum" -> <<10>>
      [] item[1] = "CGPA {cgpa:.2f} < {min_cgpa_value:.2f}" -> <<20, item[2], item[3]>>
      [] item[1] = "{subject} below {needed_grade}" /\ item[2] = "English" -> <<30, GradeOrder(item[3])>>
      [] item[1] = "English level significantly below requirement" -> <<31>>
      [] item[1] = "{subject} below {needed_grade}" /\ item[2] = "Math" -> <<40, GradeOrder(item[3])>>
      [] item[1] = "Missing subject grade for {subject}" -> <<41, SubjectOrder(item[2])>>
      [] item[1] = "Overseas-only pathway while student chose Malaysia only" -> <<50>>
      [] item[1] = "Relocation not preferred" -> <<60>>
      [] item[1] = "Rule inactive" -> <<61>>
      [] item[1] = "SPM credits {credits} < {min_credits}" ->
             <<70>> \o Digits(item[2]) \o <<-1>> \o Digits(item[3])
      [] item[1] = "Student level mismatch" -> <<71>>
      [] item[1] = "{subject} below {needed_grade}" -> <<80, SubjectOrder(item[2]), GradeOrder(item[3])>>
      [] OTHER -> <<90>>

\* sorted(set(items)): the distinct items, ascending.
SortedSet(items) ==
    LET F[k \in 0..Len(items)] ==
            IF k = 0 THEN <<>>
            ELSE IF \E j \in 1..(k - 1) : items[j] = items[k] THEN F[k - 1]
            ELSE With(F[k - 1], LAMBDA sorted :
                 LET x == items[k]
                     after == {j \in 1..Len(sorted) : LexLess(ReasonKey(x), ReasonKey(sorted[j]))}
                     pos == IF after = {} THEN Len(sorted) + 1
                            ELSE CHOOSE j \in after : \A h \in after : j <= h
                 IN  SubSeq(sorted, 1, pos - 1) \o <<x>> \o SubSeq(sorted, pos, Len(sorted)))
    IN  F[Len(items)]

build_recovery_plan(student_input, rejection_reasons, fallback_rules) ==
    With(Take(fallback_rules, 3), LAMBDA first :
        [blocked_inputs |-> Take(SortedSet(rejection_reasons), 6),
         unlock_steps |->
             <<"Improve the weakest academic prerequisite for your target pathway.",
               "Increase budget flexibility via scholarships, grants, or part-time planning.",
               "Strengthen English readiness with measurable weekly targets.",
               "Prioritize local pathways first, then reassess overseas options.",
               "Review constraints with a counselor to widen feasible options.">>,
         alternative_local_pathways |->
             [k \in 1..Len(first) |->
                 [pathway_title |-> first[k].pathway_title,
                  summary |-> first[k].pathway_summary,
                  cost_estimate_text |-> first[k].cost_estimate_text]]])

\* --------------------------------------------------- university matcher

\* _best_intake_delta: the smallest (month - current_month) % 12 over the
\* recognised intake terms, NoneInt when there is none.
_best_intake_delta(intake_terms, month) ==
    LET deltas == {(MONTH_TO_NUM[Lower(Strip(intake_terms[k]))] - month) % 12 :
                      k \in {j \in DOMAIN intake_terms :
                                 Lower(Strip(intake_terms[j])) \in DOMAIN MONTH_TO_NUM}}
    IN  IF deltas = {} THEN NoneInt
        ELSE CHOOSE d \in deltas : \A e \in deltas : d <= e

_intake_window_fit(intake_window, intake_terms, month) ==
    LET delta == _best_intake_delta(intake_terms, month)
    IN  IF delta = NoneInt THEN <<6 * Scale, "Intake timing available on request">>
        ELSE IF intake_window = "next_3_months"
        THEN IF delta <= 3 THEN <<15 * Scale, "Intake aligns with your 0-3 month timeline">>
             ELSE <<4 * Scale, "Intake may be later than your preferred immediate timeline">>
        ELSE IF intake_window = "next_6_12_months"
        THEN IF 4 <= delta /\ delta <= 12
             THEN <<15 * Scale, "Intake fits your 6-12 month planning window">>
             ELSE <<10 * Scale, "Intake available earlier than planned">>
        ELSE IF intake_window = "flexible_local"
        THEN <<12 * Scale, "Timeline is flexible with local-first focus">>
        ELSE <<10 * Scale, "Intake timing is generally compatible">>

\* The filters at the head of _score_university_option without the checks
\* of is_active and of the program level.
UniExcludedByDestination(program, student_input) ==
    LET country == IF TruthyStr(program.country) THEN program.country ELSE "Malaysia"
        preference == GetStr(student_input.destination_preference, "malaysia_only")
        selected_destinations ==
            _norm_set(IF student_input.destination_tags = <<>> THEN <<"Malaysia">>
                      ELSE student_input.destination_tags)
    IN  \/ (preference = "malaysia_only" /\ Lower(country) # "malaysia")
        \/ (preference = "open_overseas" /\ selected_destinations # {}
              /\ Lower(country) \notin selected_destinations /\ Lower(country) # "malaysia")

\* The filters at the head of _score_university_option without the two
\* checks of the country.
UniExcludedIgnoringCountry(program, student_input) ==
    LET level == student_input.student_level
        program_level == program.program_level
    IN  \/ ~program.active
        \/ (level = "SPM" /\ program_level \notin {"Foundation", "Diploma"})
        \/ (level = "Diploma" /\ program_level \notin {"Bachelor", "Top-up"})

\* The hard filters at the head of _score_university_option.
UniExcluded(program, student_input) ==
    LET level == student_input.student_level
        program_level == program.program_level
        country == IF TruthyStr(program.country) THEN program.country ELSE "Malaysia"
        preference == GetStr(student_input.destination_preference, "malaysia_only")
        selected_destinations ==
            _norm_set(IF student_input.destination_tags = <<>> THEN <<"Malaysia">>
                      ELSE student_input.destination_tags)
    IN  \/ ~program.active
        \/ (level = "SPM" /\ program_level \notin {"Foundation", "Diploma"})
        \/ (level = "Diploma" /\ program_level \notin {"Bachelor", "Top-up"})
        \/ (preference = "malaysia_only" /\ Lower(country) # "malaysia")
        \/ (preference = "open_overseas" /\ selected_destinations # {}
              /\ Lower(country) \notin selected_destinations /\ Lower(country) # "malaysia")

\* Each Uni* step takes u = [alive, score, reasons, cautions] and returns it
\* after the step; alive = FALSE once the code has returned None.

UniTags(u, program, student_input, pathway_tags) ==
    LET program_tags == _norm_set(_as_list(program.field_tags))
        specific_interest ==
            Lower(Strip(IF TruthyStr(student_input.specific_program_interest)
                        THEN student_input.specific_program_interest ELSE ""))
        student_interest ==
            _norm_set(_as_list(student_input.interest_tags))
              \cup (IF specific_interest # "" /\ specific_interest # "general"
                    THEN {specific_interest} ELSE {})
              \cup pathway_tags
        overlap == program_tags \cap student_interest
    IN  IF overlap # {}
        THEN [u EXCEPT !.score = @ + Min2(30 * Scale, 12 * Scale + Cardinality(overlap) * 7 * Scale),
                  !.reasons = Append(@, <<"Program fit: {sorted(overlap)}", overlap>>)]
        ELSE [u EXCEPT !.score = @ + 6 * Scale,
                  !.cautions = Append(@, <<"Program specialization may not fully match stated interests">>)]

UniAcademic(u, program, student_input) ==
    LET level == student_input.student_level
        req == program.admission_requirements_json
        credits == OrZero(student_input.spm_credits)
        required == OrZero(req.min_spm_credits)
        cgpa == OrZero(student_input.cgpa)
        required_cgpa == OrZero(req.min_cgpa)
    IN  IF ~u.alive THEN u
        ELSE IF level = "SPM" THEN
            IF required # 0 /\ credits < required THEN [u EXCEPT !.alive = FALSE]
            ELSE IF required # 0 THEN
                [u EXCEPT !.score = @ + (IF credits >= required + 1 THEN 18 * Scale ELSE 14 * Scale),
                     !.reasons = Append(@, <<"SPM credits meet baseline ({credits}/{required}+)", credits, required>>)]
            ELSE u
        ELSE IF level = "Diploma" THEN
            IF required_cgpa # 0 /\ cgpa < required_cgpa THEN [u EXCEPT !.alive = FALSE]
            ELSE IF required_cgpa # 0 THEN
                [u EXCEPT !.score = @ + (IF cgpa >= required_cgpa + 20 THEN 18 * Scale ELSE 14 * Scale),
                     !.reasons = Append(@, <<"CGPA meets baseline ({cgpa:.2f}/{required_cgpa:.2f}+)", cgpa, required_cgpa>>)]
            ELSE u
        ELSE u

UniEnglish(u, program, student_input) ==
    LET req == program.admission_requirements_json
        english_self == GetStr(student_input.english_self, "Beginner")
        required_english == IF TruthyStr(req.english_min_level) THEN req.english_min_level ELSE "Intermediate"
    IN  IF ~u.alive THEN u
        ELSE IF english_meets_requirement(english_self, required_english)
        THEN [u EXCEPT !.score = @ + 10 * Scale,
                  !.reasons = Append(@, <<"English level matches entry expectation">>)]
        ELSE IF DictGet(ENGLISH_LEVELS, english_self, 0) + 1 < DictGet(ENGLISH_LEVELS, required_english, 1)
        THEN [u EXCEPT !.alive = FALSE]
        ELSE [u EXCEPT !.score = @ + 5 * Scale,
                  !.cautions = Append(@, <<"English readiness is close to threshold">>)]

\* IELTS scores are in tenths of a band.
UniTests(u, program, student_input) ==
    LET req == program.admission_requirements_json
        ielts_min == OrZero(IF TruthyInt(program.ielts_min) THEN program.ielts_min ELSE req.ielts_min)
        toefl_min == IF TruthyInt(program.toefl_min) THEN program.toefl_min ELSE OrZero(req.toefl_min)
        ielts_score == OrZero(student_input.ielts_score)
        toefl_score == OrZero(student_input.toefl_score)
        u1 == IF ielts_min > 0 THEN
                  IF ielts_score # 0 /\ ielts_score >= ielts_min
                  THEN [u EXCEPT !.score = @ + 6 * Scale,
                            !.reasons = Append(@, <<"IELTS aligns ({ielts_score:.1f}/{ielts_min:.1f})", ielts_score, ielts_min>>)]
                  ELSE IF ielts_score = 0
                  THEN [u EXCEPT !.cautions = Append(@, <<"IELTS {ielts_min:.1f} may be required", ielts_min>>)]
                  ELSE u
              ELSE u
    IN  IF ~u.alive THEN u
        ELSE IF toefl_min > 0 THEN
            IF toefl_score # 0 /\ toefl_score >= toefl_min
            THEN [u1 EXCEPT !.score = @ + 4 * Scale,
                      !.reasons = Append(@, <<"TOEFL aligns ({toefl_score}/{toefl_min})", toefl_score, toefl_min>>)]
            ELSE IF toefl_score = 0
            THEN [u1 EXCEPT !.cautions = Append(@, <<"TOEFL {toefl_min} may be required", toefl_min>>)]
            ELSE u1
        ELSE u1

\* The budget step that keeps a program however far the budget falls short.
UniBudgetNeverExcludes(u, program, student_input) ==
    LET budget_yearly == OrZero(student_input.budget_monthly) * 12
        tuition_min == program.tuition_yearly_min_myr
        tuition_max == program.tuition_yearly_max_myr
    IN  IF ~u.alive THEN u
        ELSE IF TruthyInt(tuition_min) THEN
            IF budget_yearly >= tuition_min
            THEN [u EXCEPT !.score = @ + 15 * Scale,
                      !.reasons = Append(@, <<"Budget aligns with estimated tuition">>)]
            ELSE [u EXCEPT !.score = @ + 9 * Scale,
                      !.cautions = Append(@, <<"Budget slightly tight; scholarship/loan planning needed">>)]
        ELSE IF TruthyInt(tuition_max) THEN [u EXCEPT !.score = @ + 10 * Scale]
        ELSE u

\* The budget step without its near-tight band: a budget under the tuition
\* minimum excludes the program.
UniBudgetStrict(u, program, student_input) ==
    LET budget_yearly == OrZero(student_input.budget_monthly) * 12
        tuition_min == program.tuition_yearly_min_myr
        tuition_max == program.tuition_yearly_max_myr
    IN  IF ~u.alive THEN u
        ELSE IF TruthyInt(tuition_min) THEN
            IF budget_yearly >= tuition_min
            THEN [u EXCEPT !.score = @ + 15 * Scale,
                      !.reasons = Append(@, <<"Budget aligns with estimated tuition">>)]
            ELSE [u EXCEPT !.alive = FALSE]
        ELSE IF TruthyInt(tuition_max) THEN [u EXCEPT !.score = @ + 10 * Scale]
        ELSE u

UniBudget(u, program, student_input) ==
    LET budget_yearly == OrZero(student_input.budget_monthly) * 12
        tuition_min == program.tuition_yearly_min_myr
        tuition_max == program.tuition_yearly_max_myr
    IN  IF ~u.alive THEN u
        ELSE IF TruthyInt(tuition_min) THEN
            IF budget_yearly >= tuition_min
            THEN [u EXCEPT !.score = @ + 15 * Scale,
                      !.reasons = Append(@, <<"Budget aligns with estimated tuition">>)]
            \* int(tuition_min * 0.8)
            ELSE IF budget_yearly >= (tuition_min * 8) \div 10
            THEN [u EXCEPT !.score = @ + 9 * Scale,
                      !.cautions = Append(@, <<"Budget slightly tight; scholarship/loan planning needed">>)]
            ELSE [u EXCEPT !.alive = FALSE]
        ELSE IF TruthyInt(tuition_max) THEN [u EXCEPT !.score = @ + 10 * Scale]
        ELSE u

UniIntake(u, program, student_input, month) ==
    LET fit == _intake_window_fit(GetStr(student_input.intake_window, ""), _as_list(program.intake_terms), month)
    IN  IF ~u.alive THEN u
        ELSE [u EXCEPT !.score = @ + fit[1], !.reasons = Append(@, <<fit[2]>>)]

UniPtptn(u, program, student_input) ==
    IF ~u.alive THEN u
    ELSE IF student_input.scholarship_needed /\ program.ptptn_eligible
    THEN [u EXCEPT !.score = @ + 5 * Scale,
              !.reasons = Append(@, <<"PTPTN-eligible indicator supports financing pathway">>)]
    ELSE u

TuitionText(program) ==
    IF TruthyInt(program.tuition_yearly_min_myr) /\ TruthyInt(program.tuition_yearly_max_myr)
    THEN <<"RM {min:,} - RM {max:,} per year", program.tuition_yearly_min_myr, program.tuition_yearly_max_myr>>
    ELSE IF TruthyInt(program.tuition_yearly_min_myr)
    THEN <<"From RM {min:,} per year", program.tuition_yearly_min_myr>>
    ELSE IF TruthyInt(program.tuition_yearly_max_myr)
    THEN <<"Up to RM {max:,} per year", program.tuition_yearly_max_myr>>
    ELSE <<"Tuition on request">>

\* _score_university_option: <<>> for None, <<option>> otherwise.
\* The additive steps of _score_university_option, from the tag overlap to
\* the PTPTN bonus.
UniSteps(program, student_input, pathway_tags, month) ==
    LET u0 == [alive |-> TRUE, score |-> 0, reasons |-> <<>>, cautions |-> <<>>]
    IN  With(UniTags(u0, program, student_input, pathway_tags), LAMBDA u1 :
        With(UniAcademic(u1, program, student_input), LAMBDA u2 :
        With(UniEnglish(u2, program, student_input), LAMBDA u3 :
        With(UniTests(u3, program, student_input), LAMBDA u4 :
        With(UniBudget(u4, program, student_input), LAMBDA u5 :
        With(UniIntake(u5, program, student_input, month), LAMBDA u6 :
        UniPtptn(u6, program, student_input)))))))

\* round(score, 2), without min(100.0, score).
UniMatchScoreUncapped(score) == Round2(score)

\* round(min(100.0, score), 2)
UniMatchScore(score) == Round2(Min2(100 * Scale, score))

_score_university_option(program, student_input, pathway_tags, month) ==
    IF UniExcluded(program, student_input) THEN <<>>
    ELSE
        With(UniSteps(program, student_input, pathway_tags, month), LAMBDA u :
        IF ~u.alive THEN <<>>
        ELSE <<[program_code |-> program.program_code,
                university_name |-> program.university_name,
                program_name |-> program.program_name,
                program_level |-> program.program_level,
                country |-> IF TruthyStr(program.country) THEN program.country ELSE "Malaysia",
                intake_terms |-> _as_list(program.intake_terms),
                ptptn_eligible |-> program.ptptn_eligible,
                tuition_yearly_text |-> TuitionText(program),
                match_score |-> UniMatchScore(u.score),
                fit_reasons |-> Take(u.reasons, 5),
                cautions |-> Take(u.cautions, 4)]>>)

MatchScoreLess(a, b) == a.match_score < b.match_score

\* The options of one recommendation: every program scored with the
\* recommendation's rule tags, sorted by match_score descending.
\* The options of one recommendation without options.sort: in the order of
\* the programs.
ScoredOptionsUnsorted(rec_tags, student_input, university_programs, month) ==
    LET pathway_tags == _norm_set(_as_list(rec_tags))
        F[k \in 0..Len(university_programs)] ==
            IF k = 0 THEN <<>>
            ELSE F[k - 1] \o _score_university_option(university_programs[k], student_input, pathway_tags, month)
    IN  F[Len(university_programs)]

\* The options of one recommendation: every program that is not filtered
\* out, scored under the recommendation's tags, best first.
ScoredOptions(rec_tags, student_input, university_programs, month) ==
    LET pathway_tags == _norm_set(_as_list(rec_tags))
        F[k \in 0..Len(university_programs)] ==
            IF k = 0 THEN <<>>
            ELSE F[k - 1] \o _score_university_option(university_programs[k], student_input, pathway_tags, month)
    IN  SortDesc(F[Len(university_programs)], MatchScoreLess)

\* dedup without the score comparison, `if not existing:`: the first item
\* of a key stays.
DedupKeepingFirst(aggregate) ==
    LET SameKey(a, b) == a.university_name = b.university_name /\ a.program_name = b.program_name
        F[k \in 0..Len(aggregate)] ==
            IF k = 0 THEN <<>>
            ELSE With(F[k - 1], LAMBDA kept :
                 LET item == aggregate[k]
                     at == {j \in DOMAIN kept : SameKey(kept[j], item)}
                 IN  IF at = {} THEN Append(kept, item) ELSE kept)
    IN  F[Len(aggregate)]

\* The dedup dict of build_university_matches as the sequence of its values
\* in key insertion order: a later item replaces the kept one, in place,
\* only when its match_score is strictly higher.
Dedup(aggregate) ==
    LET SameKey(a, b) == a.university_name = b.university_name /\ a.program_name = b.program_name
        F[k \in 0..Len(aggregate)] ==
            IF k = 0 THEN <<>>
            ELSE With(F[k - 1], LAMBDA kept :
                 LET item == aggregate[k]
                     at == {j \in DOMAIN kept : SameKey(kept[j], item)}
                 IN  IF at = {} THEN Append(kept, item)
                     ELSE LET j == CHOOSE j \in at : TRUE
                          IN  IF item.match_score > kept[j].match_score
                              THEN [kept EXCEPT ![j] = item] ELSE kept)
    IN  F[Len(aggregate)]

\* sorted(dedup.values(), key=match_score, reverse=True)[:8]
TopGlobal(aggregate) == Take(SortDesc(Dedup(aggregate), MatchScoreLess), 8)

\* options.sort(...); top_options = options[:3]
TopOptions(rec_tags, student_input, university_programs, month) ==
    Take(ScoredOptions(rec_tags, student_input, university_programs, month), 3)

\* build_university_matches: [recommendations, top_global], the
\* recommendations with their university_options set.
build_university_matches(recommendations, student_input, university_programs, month) ==
    LET Options(rec) == TopOptions(rec._rule_interest_tags, student_input, university_programs, month)
    IN  With([k \in DOMAIN recommendations |->
                 [recommendations[k] EXCEPT !.university_options = Options(recommendations[k])]],
             LAMBDA with_options :
        LET Agg[k \in 0..Len(with_options)] ==
                IF k = 0 THEN <<>>
                ELSE With(Agg[k - 1], LAMBDA agg :
                          agg \o Take(with_options[k].university_options, 2))
        IN  [recommendations |-> with_options, top_global |-> TopGlobal(Agg[Len(with_options)])])

\* -------------------------------------------------------------- inputs

MaxRules == 4
MaxTopN == 4
MaxPrograms == 2

\* The rule of tests/test_logic.py, R1.
BaseRule ==
    [rule_id |-> "R1", active |-> TRUE, student_level |-> "SPM",
     interest_tags |-> <<"IT", "Engineering">>, destination_tags |-> <<"Malaysia">>,
     min_spm_credits |-> 5, required_subjects_json |-> << <<"math", "C">>, <<"english", "C">> >>,
     min_cgpa |-> NoneInt, budget_min |-> 800, budget_max |-> 3500,
     english_min |-> "Intermediate",
     constraints_json |-> [work_part_time_ok |-> TRUE, timeline_fast_track |-> FALSE],
     pathway_title |-> "Foundation IT", pathway_summary |-> "Local route",
     cost_estimate_text |-> "RM 800-3500/month", scholarship_likelihood |-> "Medium",
     priority_weight |-> 9]

\* R2 of tests/test_logic.py: an overseas pathway.
OverseasRule ==
    [BaseRule EXCEPT !.rule_id = "R2", !.interest_tags = <<"Business">>,
        !.destination_tags = <<"Australia">>, !.min_spm_credits = 6,
        !.required_subjects_json = << <<"math", "C">>, <<"english", "B">> >>,
        !.budget_min = 3000, !.budget_max = 7000, !.english_min = "Advanced",
        !.pathway_title = "Business Overseas", !.pathway_summary = "Overseas route",
        !.cost_estimate_text = "RM 3000-7000/month", !.scholarship_likelihood = "Low",
        !.priority_weight = 5]

\* The same requirements as R1 under another id and a lower priority.
TwinRule ==
    [BaseRule EXCEPT !.rule_id = "R3", !.pathway_title = "Foundation IT (twin)", !.priority_weight = 4]

\* A rule with no requirement at all.
FlexibleRule ==
    [BaseRule EXCEPT !.rule_id = "R4", !.interest_tags = <<>>, !.destination_tags = <<>>,
        !.min_spm_credits = NoneInt, !.required_subjects_json = <<>>, !.budget_min = NoneInt,
        !.budget_max = NoneInt, !.english_min = NoneStr, !.pathway_title = "Open pathway",
        !.pathway_summary = "Any route", !.cost_estimate_text = "On request",
        !.scholarship_likelihood = "High", !.priority_weight = 7]

DiplomaRule ==
    [BaseRule EXCEPT !.rule_id = "R5", !.student_level = "Diploma", !.interest_tags = <<"IT">>,
        !.min_spm_credits = NoneInt, !.required_subjects_json = <<>>, !.min_cgpa = 250,
        !.pathway_title = "Degree top-up", !.pathway_summary = "Top-up route",
        !.priority_weight = 6]

InactiveRule ==
    [BaseRule EXCEPT !.rule_id = "R6", !.active = FALSE, !.student_level = "Diploma",
        !.min_spm_credits = NoneInt, !.required_subjects_json = <<>>, !.min_cgpa = 200,
        !.pathway_title = "Retired pathway", !.pathway_summary = "Closed route",
        !.priority_weight = 10]

RuleCatalog == {BaseRule, OverseasRule, TwinRule, FlexibleRule, DiplomaRule, InactiveRule}

\* Rules that each reject the SPM profile of the tests for a reason of its
\* own; two of them share a reason, and six are local pathways of that
\* profile's level.
CreditsRule ==
    [BaseRule EXCEPT !.rule_id = "K3", !.min_spm_credits = 7,
        !.pathway_title = "Science stream", !.priority_weight = 3]

HighCreditsRule ==
    [BaseRule EXCEPT !.rule_id = "K4", !.min_spm_credits = 9,
        !.pathway_title = "Honours stream", !.priority_weight = 8]

MathRule ==
    [BaseRule EXCEPT !.rule_id = "K5", !.required_subjects_json = << <<"math", "A">> >>,
        !.pathway_title = "Actuarial route", !.priority_weight = 8]

PhysicsRule ==
    [BaseRule EXCEPT !.rule_id = "K6", !.required_subjects_json = << <<"physics", "C">> >>,
        !.pathway_title = "Engineering route", !.priority_weight = 9]

CostlyRule ==
    [BaseRule EXCEPT !.rule_id = "K7", !.budget_min = 3000,
        !.pathway_title = "Private college", !.priority_weight = 1]

AbroadRule ==
    [BaseRule EXCEPT !.rule_id = "K8", !.destination_tags = <<"Australia">>,
        !.pathway_title = "Study abroad", !.priority_weight = 10]

CostlyTwinRule ==
    [BaseRule EXCEPT !.rule_id = "K9", !.budget_min = 2500,
        !.pathway_title = "Branch campus", !.priority_weight = 6]

BlockedCatalog ==
    <<CostlyRule, DiplomaRule, PhysicsRule, CostlyTwinRule, InactiveRule, HighCreditsRule,
      AbroadRule, CreditsRule, MathRule>>

\* base_spm_input() of tests/test_logic.py.
BaseProfile ==
    [student_level |-> "SPM", spm_credits |-> 6, cgpa |-> NoneInt,
     subjects |-> << <<"math", "B">>, <<"english", "B">>, <<"bm", "C">>, <<"science", "B">> >>,
     interest_tags |-> <<"IT", "Engineering">>, specific_program_interest |-> NoneStr,
     budget_monthly |-> 1500, english_self |-> "Intermediate", english_test_score |-> 70,
     ielts_score |-> NoneInt, toefl_score |-> NoneInt,
     destination_preference |-> "malaysia_only", destination_tags |-> <<"Malaysia">>,
     intake_window |-> "next_6_12_months",
     scholarship_needed |-> FALSE, need_work_part_time |-> TRUE,
     timeline_urgency |-> "normal", family_constraints |-> "none",
     willing_relocate |-> TRUE, preparedness_checklist |-> <<"CV drafted">>]

\* "SPM overseas business ambitious" of scripts/run_outcome_matrix.py.
OverseasProfile ==
    [BaseProfile EXCEPT !.spm_credits = 7,
        !.subjects = << <<"bm", "B">>, <<"English", "A">>, <<"math", "B">>, <<"science", "B">> >>,
        !.interest_tags = <<"Business", " IT ">>, !.budget_monthly = 5200,
        !.english_self = "Advanced", !.english_test_score = 80, !.ielts_score = 65,
        !.destination_preference = "open_overseas", !.destination_tags = <<"Australia", "UK">>,
        !.intake_window = "next_3_months",
        !.preparedness_checklist = <<"Transcript ready", "CV drafted", "Shortlisted institutions">>]

\* "SPM low budget beginner local" of scripts/run_outcome_matrix.py.
LowProfile ==
    [BaseProfile EXCEPT !.spm_credits = 3,
        !.subjects = << <<"bm", "C">>, <<"english", "D">>, <<"math", "D">> >>,
        !.interest_tags = <<"Business">>, !.budget_monthly = 700,
        !.english_self = "Beginner", !.english_test_score = 40,
        !.scholarship_needed = TRUE, !.family_constraints = "financial",
        !.willing_relocate = FALSE, !.preparedness_checklist = <<>>]

DiplomaProfile ==
    [BaseProfile EXCEPT !.student_level = "Diploma", !.spm_credits = NoneInt, !.cgpa = 325,
        !.subjects = <<>>, !.interest_tags = <<"IT">>, !.english_test_score = NoneInt,
        !.scholarship_needed = TRUE, !.timeline_urgency = "urgent",
        !.intake_window = "flexible_local"]

WeakDiplomaProfile ==
    [DiplomaProfile EXCEPT !.cgpa = 180, !.budget_monthly = 900, !.english_self = NoneStr]

\* A profile whose student_level was never set.
NoLevelProfile == [BaseProfile EXCEPT !.student_level = NoneStr]

Profiles == {BaseProfile, OverseasProfile, LowProfile, DiplomaProfile, WeakDiplomaProfile, NoLevelProfile}

\* The program of tests/test_logic.py.
BaseProgram ==
    [program_code |-> "MY_TEST_IT_01", active |-> TRUE, university_name |-> "Test University",
     country |-> "Malaysia", program_name |-> "Diploma in Information Technology",
     program_level |-> "Diploma", field_tags |-> <<"IT", "Data">>,
     intake_terms |-> <<"March", "September">>,
     admission_requirements_json |->
         [min_spm_credits |-> 5, min_cgpa |-> NoneInt, english_min_level |-> "Intermediate",
          ielts_min |-> NoneInt, toefl_min |-> NoneInt],
     tuition_yearly_min_myr |-> 18000, tuition_yearly_max_myr |-> 24000,
     ielts_min |-> NoneInt, toefl_min |-> NoneInt, ptptn_eligible |-> TRUE]

\* The same university and program name under another code, cheaper.
TwinProgram ==
    [BaseProgram EXCEPT !.program_code = "MY_TEST_IT_02", !.field_tags = <<"Business">>,
        !.intake_terms = <<"January">>, !.tuition_yearly_min_myr = 9000]

OverseasProgram ==
    [BaseProgram EXCEPT !.program_code = "AU_FND_01", !.university_name = "Sydney College",
        !.country = "Australia", !.program_name = "Foundation in Business",
        !.program_level = "Foundation", !.field_tags = <<"Business">>,
        !.intake_terms = <<"June">>, !.tuition_yearly_min_myr = 60000,
        !.tuition_yearly_max_myr = 80000, !.ielts_min = 60, !.ptptn_eligible = FALSE]

DegreeProgram ==
    [BaseProgram EXCEPT !.program_code = "MY_DEG_01", !.university_name = "Degree University",
        !.program_name = "Bachelor of IT", !.program_level = "Bachelor",
        !.admission_requirements_json =
            [min_spm_credits |-> NoneInt, min_cgpa |-> 300, english_min_level |-> NoneStr,
             ielts_min |-> NoneInt, toefl_min |-> 60],
        !.intake_terms = <<"on request">>, !.tuition_yearly_min_myr = NoneInt]

\* A program withdrawn from the catalog.
InactiveProgram ==
    [BaseProgram EXCEPT !.program_code = "MY_OLD_01", !.university_name = "Closed College",
        !.active = FALSE, !.tuition_yearly_min_myr = 6000]

ProgramCatalog == <<BaseProgram, TwinProgram, OverseasProgram, DegreeProgram, InactiveProgram>>

\* A program that asks for both tests and matches three interest tags.
TopProgram ==
    [BaseProgram EXCEPT !.program_code = "MY_TOP_01", !.university_name = "Top University",
        !.program_name = "Diploma in Computing",
        !.field_tags = <<"IT", "Engineering", "Business">>, !.intake_terms = <<"June">>,
        !.admission_requirements_json =
            [min_spm_credits |-> 5, min_cgpa |-> NoneInt, english_min_level |-> "Intermediate",
             ielts_min |-> NoneInt, toefl_min |-> 60],
        !.tuition_yearly_min_myr = 12000, !.tuition_yearly_max_myr = 15000, !.ielts_min = 55]

\* A program that publishes only a tuition ceiling and no requirements.
FoundationProgram ==
    [BaseProgram EXCEPT !.program_code = "MY_FND_01", !.university_name = "Foundation College",
        !.program_name = "Foundation in Science", !.program_level = "Foundation",
        !.field_tags = <<"Engineering">>, !.intake_terms = <<"September">>,
        !.admission_requirements_json =
            [min_spm_credits |-> NoneInt, min_cgpa |-> NoneInt, english_min_level |-> NoneStr,
             ielts_min |-> NoneInt, toefl_min |-> NoneInt],
        !.tuition_yearly_min_myr = NoneInt, !.tuition_yearly_max_myr = 20000,
        !.ptptn_eligible = FALSE]

\* The programs handed to the matcher one list at a time.
OptionCatalog ==
    <<FoundationProgram, InactiveProgram, BaseProgram, OverseasProgram, TopProgram,
      DegreeProgram, TwinProgram>>

\* A profile with both test scores, room in the budget and a loan need.
StrongProfile ==
    [BaseProfile EXCEPT !.spm_credits = 8, !.ielts_score = 65, !.toefl_score = 90,
        !.budget_monthly = 2000, !.scholarship_needed = TRUE]

\* The sequences without repetition of at most n elements of S.
Arrangements(S, n) ==
    LET F[k \in 0..n] ==
            IF k = 0 THEN {<<>>}
            ELSE F[k - 1] \cup {Append(s, x) : s \in {t \in F[k - 1] : Len(t) = k - 1},
                                              x \in S} 
    IN  {s \in F[n] : \A a, b \in DOMAIN s : a # b => s[a] # s[b]}

\* The subsequences of s with at most n elements.
SubSequences(s, n) ==
    LET Pick(idx) ==
            LET F[k \in 0..Len(s)] ==
                    IF k = 0 THEN <<>>
                    ELSE IF k \in idx THEN Append(F[k - 1], s[k]) ELSE F[k - 1]
            IN  F[Len(s)]
    IN  {Pick(idx) : idx \in {d \in SUBSET DOMAIN s : Cardinality(d) <= n}}

RuleLists == Arrangements(RuleCatalog, MaxRules)
\* Rule lists with a pathway abroad that asks for no more than a local one.
DestinationRuleLists == {<<AbroadRule, BaseRule>>, <<BaseRule, AbroadRule, TwinRule>>, <<AbroadRule>>}
\* The overseas profile of a student who will not relocate.
HomeboundProfile == [OverseasProfile EXCEPT !.willing_relocate = FALSE]
\* The student of the tests one English level under the rules' minimum.
BeginnerProfile == [BaseProfile EXCEPT !.english_self = "Beginner"]
\* A budget of 81% of the budget_min of the rules of the tests.
TightProfile == [BaseProfile EXCEPT !.budget_monthly = 650]
MaxBlockedRules == 8
BlockedRuleLists == SubSequences(BlockedCatalog, MaxBlockedRules)
TopNs == -1..MaxTopN
ProgramLists == SubSequences(ProgramCatalog, MaxPrograms)
Months == 1..12

\* ------------------------------------------------------------- state

VARIABLES
    rules,               \* evaluate_rules' argument rules
    student_input,       \* its argument student_input, the profile
    top_n,               \* its argument top_n
    university_programs, \* its argument university_programs (<<>> for None)
    current_month,       \* datetime.utcnow().month
    pc,                  \* where the call is
    i,                   \* the index of `for rule in rules`
    gate,                \* the gate's result for rules[i]
    eligible,            \* the local list eligible
    rejection_reasons,   \* the local list rejection_reasons
    readiness,           \* the local readiness
    recommendations,     \* the local list recommendations
    action_plan,         \* the local action_plan
    result,              \* the returned mapping
    calls,               \* how many calls have been made
    ticks,               \* how many times the month has changed
    prev_result,         \* the mapping the previous call returned
    prev_month,          \* the month the previous call ran in
    fpc,                 \* where the single-rule evaluation is
    fn_rule,             \* the rule handed to the gate and the scorers
    fn_profile,          \* the profile handed to them
    fn_out,              \* what they returned
    upc,                 \* where the single-program evaluation is
    u_program,           \* the program handed to _score_university_option
    u_profile,           \* the profile handed to it
    u_tags,              \* the pathway tags handed to it
    u_option,            \* what it returned (<<>> for None)
    u_programs,          \* the programs handed to one recommendation's matching
    u_options,           \* the top_options made of them
    u_pool,              \* the list aggregate of build_university_matches
    u_top                \* the top_global made of it

inputs == <<rules, student_input, top_n, university_programs>>
locals == <<i, gate, eligible, rejection_reasons, readiness, recommendations, action_plan>>
history == <<calls, prev_result, prev_month>>
fnvars == <<fpc, fn_rule, fn_profile, fn_out>>
univars == <<upc, u_program, u_profile, u_tags, u_option, u_programs, u_options, u_pool, u_top>>
vars == <<inputs, current_month, pc, locals, result, history, ticks, fnvars, univars>>

DefaultTopN == 5
MaxCalls == 2
MaxTicks == 1

NoGate == [passed |-> FALSE, matched |-> <<>>, borderline |-> <<>>, missing |-> <<>>]
NoReadiness ==
    [readiness_score |-> NoneInt,
     breakdown |-> [academic |-> 0, english |-> 0, budget |-> 0, preparedness |-> 0]]
NoPlan == [seven_day_actions |-> <<>>, thirty_day_plan |-> <<>>]
\* The value of result while no call has returned.
NoResult ==
    [no_match |-> FALSE, readiness |-> NoReadiness, recommendations |-> <<>>,
     top_university_options |-> <<>>, recovery_plan |-> <<>>,
     seven_day_actions |-> <<>>, thirty_day_plan |-> <<>>]
NoFit ==
    [fit_score |-> 0,
     component_scores |-> [interest |-> 0, academic |-> 0, budget |-> 0, english |-> 0, constraints |-> 0],
     explanation |-> [matched_conditions |-> <<>>, borderline_conditions |-> <<>>, missing_conditions |-> <<>>]]
NoDetail == ScoreDetail(0, <<>>, <<>>, <<>>)
NoOut ==
    [gate |-> NoGate, interest |-> NoDetail, academic |-> NoDetail, budget |-> NoDetail,
     english |-> NoDetail, constraints |-> NoDetail, fit |-> NoFit, readiness |-> NoReadiness]

\* ------------------------------------------------------ evaluate_rules

\* The sort key without its tie-break: key=lambda x: x["fit_score"].
FitKeyLessByScore(a, b) == a.fit_score < b.fit_score

\* key=lambda x: (x["fit_score"], x["priority_weight"])
FitKeyLess(a, b) ==
    \/ a.fit_score < b.fit_score
    \/ (a.fit_score = b.fit_score /\ a.priority_weight < b.priority_weight)

\* The gate's fragments put after the scorers': scored[...] + matched.
ExplanationGateLast(g, explanation) ==
    [matched_conditions |-> explanation.matched_conditions \o g.matched,
     borderline_conditions |-> explanation.borderline_conditions \o g.borderline,
     missing_conditions |-> explanation.missing_conditions \o g.missing]

\* matched + scored["explanation"]["matched_conditions"], and the same for
\* borderline and missing.
ExplanationWithGate(g, explanation) ==
    [matched_conditions |-> g.matched \o explanation.matched_conditions,
     borderline_conditions |-> g.borderline \o explanation.borderline_conditions,
     missing_conditions |-> g.missing \o explanation.missing_conditions]

\* The entry appended to eligible for a rule that passed the gate g.
EligibleEntry(rule, g, profile) ==
    With(compute_fit_score(rule, profile), LAMBDA scored :
        [rule_id |-> rule.rule_id,
         pathway_title |-> rule.pathway_title,
         pathway_summary |-> rule.pathway_summary,
         cost_estimate_text |-> rule.cost_estimate_text,
         scholarship_likelihood |-> rule.scholarship_likelihood,
         priority_weight |-> rule.priority_weight,
         _rule_interest_tags |-> rule.interest_tags,
         fit_score |-> scored.fit_score,
         component_scores |-> scored.component_scores,
         explanation |-> ExplanationWithGate(g, scored.explanation),
         readiness_score |-> NoneInt,
         university_options |-> <<>>])

\* The shortlist without its floor of three: eligible[: min(top_n, len(eligible))].
ShortlistTopN(elig, n) == Take(elig, Min2(n, Len(elig)))

\* eligible[: max(3, min(top_n, len(eligible)))]
Shortlist(elig, n) == Take(elig, Max2(3, Min2(n, Len(elig))))

\* The missing_conditions of all recommendations, in order.
AggregateMissing(recs) ==
    LET F[k \in 0..Len(recs)] ==
            IF k = 0 THEN <<>> ELSE F[k - 1] \o recs[k].explanation.missing_conditions
    IN  F[Len(recs)]

\* fallback_local without fallback_local.sort: in the order of the rules.
FallbackLocalUnsorted(rule_list, profile) ==
    SelectSeq(rule_list,
              LAMBDA r : r.student_level = profile.student_level
                           /\ "malaysia" \in _norm_set(r.destination_tags))

\* fallback_local: the rules of the student's level whose destination tags
\* include Malaysia, by priority_weight descending.
FallbackLocal(rule_list, profile) ==
    LET PriorityLess(a, b) == a.priority_weight < b.priority_weight
    IN  SortDesc(SelectSeq(rule_list,
                           LAMBDA r : r.student_level = profile.student_level
                                        /\ "malaysia" \in _norm_set(r.destination_tags)),
                 PriorityLess)

\* The shortlist-specific lists put in front of the whole action plan,
\* without the slices [:2] and [:3].
ShortlistPlanWhole(plan, top_universities) ==
    LET first == Take(top_universities, 3)
        uni_names == SelectSeq([k \in DOMAIN first |-> first[k].university_name], TruthyStr)
    IN  IF top_universities # <<>> /\ uni_names # <<>>
        THEN [seven_day_actions |->
                  << <<"Shortlist these universities for action: {shortlist}.", uni_names>>,
                     <<"Open each official application page and record required documents.">>,
                     <<"Email admissions teams to confirm latest intake and entry requirements.">> >>
                  \o plan.seven_day_actions,
              thirty_day_plan |->
                  << <<"Complete a personal statement draft tailored to your top 3 programs.">>,
                     <<"Prepare certified academic transcripts and English test evidence.">>,
                     <<"Submit at least 2 applications before the earliest deadline shown.">> >>
                  \o plan.thirty_day_plan]
        ELSE plan

\* The shortlist-specific lists written over the action plan when there are
\* university matches with a name.
ShortlistPlan(plan, top_universities) ==
    LET first == Take(top_universities, 3)
        uni_names == SelectSeq([k \in DOMAIN first |-> first[k].university_name], TruthyStr)
    IN  IF top_universities # <<>> /\ uni_names # <<>>
        THEN [seven_day_actions |->
                  << <<"Shortlist these universities for action: {shortlist}.", uni_names>>,
                     <<"Open each official application page and record required documents.">>,
                     <<"Email admissions teams to confirm latest intake and entry requirements.">> >>
                  \o Take(plan.seven_day_actions, 2),
              thirty_day_plan |->
                  << <<"Complete a personal statement draft tailored to your top 3 programs.">>,
                     <<"Prepare certified academic transcripts and English test evidence.">>,
                     <<"Submit at least 2 applications before the earliest deadline shown.">> >>
                  \o Take(plan.thirty_day_plan, 3)]
        ELSE plan

\* The call starts on lists that outlive it: eligible and rejection_reasons
\* kept from the call before.
CallKeepingLists ==
    /\ pc = "idle"
    /\ pc' = "gating"
    /\ i' = 1
    /\ gate' = NoGate
    /\ readiness' = NoReadiness
    /\ recommendations' = <<>>
    /\ action_plan' = NoPlan
    /\ calls' = calls + 1
    /\ UNCHANGED <<inputs, current_month, eligible, rejection_reasons, result, prev_result,
                   prev_month, ticks, fnvars, univars>>

\* The call starts: the locals are fresh.
Call ==
    /\ pc = "idle"
    /\ pc' = "gating"
    /\ i' = 1
    /\ gate' = NoGate
    /\ eligible' = <<>>
    /\ rejection_reasons' = <<>>
    /\ readiness' = NoReadiness
    /\ recommendations' = <<>>
    /\ action_plan' = NoPlan
    /\ calls' = calls + 1
    /\ UNCHANGED <<inputs, current_month, result, prev_result, prev_month, ticks, fnvars, univars>>

\* for rule in rules: the gate; a rule that fails leaves its reasons.
GateRule ==
    /\ pc = "gating"
    /\ i <= Len(rules)
    /\ LET g == evaluate_rule_gate(rules[i], student_input)
       IN  /\ gate' = g
           /\ IF g.passed
              THEN /\ pc' = "scoring"
                   /\ UNCHANGED <<i, rejection_reasons>>
              ELSE /\ rejection_reasons' = rejection_reasons \o g.missing
                   /\ i' = i + 1
                   /\ pc' = "gating"
    /\ UNCHANGED <<inputs, current_month, eligible, readiness, recommendations, action_plan,
                   result, history, ticks, fnvars, univars>>

\* The rule passed: it is scored and appended to eligible.
ScoreRule ==
    /\ pc = "scoring"
    /\ eligible' = Append(eligible, EligibleEntry(rules[i], gate, student_input))
    /\ i' = i + 1
    /\ pc' = "gating"
    /\ UNCHANGED <<inputs, current_month, gate, rejection_reasons, readiness, recommendations,
                   action_plan, result, history, ticks, fnvars, univars>>

\* After the loop: eligible.sort(...) and the readiness score.
Rank ==
    /\ pc = "gating"
    /\ i > Len(rules)
    /\ eligible' = SortDesc(eligible, FitKeyLess)
    /\ readiness' = compute_readiness_score(student_input)
    /\ pc' = "ranked"
    /\ UNCHANGED <<inputs, current_month, i, gate, rejection_reasons, recommendations,
                   action_plan, result, history, ticks, fnvars, univars>>

\* The recovery branch taken on `if rejection_reasons:` in place of
\* `if not eligible:`.
NoMatchOnRejection ==
    /\ pc = "ranked"
    /\ rejection_reasons # <<>>
    /\ LET recovery == build_recovery_plan(student_input, rejection_reasons,
                                           FallbackLocal(rules, student_input))
           plan == build_action_plan(student_input, rejection_reasons)
           seeded == <<[_rule_interest_tags |-> student_input.interest_tags,
                        university_options |-> <<>>]>>
           top_universities ==
               IF university_programs # <<>>
               THEN Take(build_university_matches(seeded, student_input, university_programs,
                                                  current_month).top_global, 5)
               ELSE <<>>
       IN  /\ action_plan' = plan
           /\ result' = [no_match |-> TRUE, readiness |-> readiness, recommendations |-> <<>>,
                         top_university_options |-> top_universities,
                         recovery_plan |-> <<recovery>>,
                         seven_day_actions |-> plan.seven_day_actions,
                         thirty_day_plan |-> plan.thirty_day_plan]
    /\ pc' = "done"
    /\ UNCHANGED <<inputs, current_month, i, gate, eligible, rejection_reasons, readiness,
                   recommendations, history, ticks, fnvars, univars>>

\* The recovery branch with the fallback rules found by rules.sort(...) in
\* place of sorted(...).
NoMatchSortingRules ==
    /\ pc = "ranked"
    /\ eligible = <<>>
    /\ LET PriorityLess(a, b) == a.priority_weight < b.priority_weight
           recovery == build_recovery_plan(student_input, rejection_reasons,
                                           FallbackLocal(rules, student_input))
           plan == build_action_plan(student_input, rejection_reasons)
           seeded == <<[_rule_interest_tags |-> student_input.interest_tags,
                        university_options |-> <<>>]>>
           top_universities ==
               IF university_programs # <<>>
               THEN Take(build_university_matches(seeded, student_input, university_programs,
                                                  current_month).top_global, 5)
               ELSE <<>>
       IN  /\ rules' = SortDesc(rules, PriorityLess)
           /\ action_plan' = plan
           /\ result' = [no_match |-> TRUE, readiness |-> readiness, recommendations |-> <<>>,
                         top_university_options |-> top_universities,
                         recovery_plan |-> <<recovery>>,
                         seven_day_actions |-> plan.seven_day_actions,
                         thirty_day_plan |-> plan.thirty_day_plan]
    /\ pc' = "done"
    /\ UNCHANGED <<student_input, top_n, university_programs, current_month, i, gate, eligible,
                   rejection_reasons, readiness, recommendations, history, ticks, fnvars, univars>>

\* if not eligible: the recovery result.
NoMatch ==
    /\ pc = "ranked"
    /\ eligible = <<>>
    /\ LET recovery == build_recovery_plan(student_input, rejection_reasons,
                                           FallbackLocal(rules, student_input))
           plan == build_action_plan(student_input, rejection_reasons)
           seeded == <<[_rule_interest_tags |-> student_input.interest_tags,
                        university_options |-> <<>>]>>
           top_universities ==
               IF university_programs # <<>>
               THEN Take(build_university_matches(seeded, student_input, university_programs,
                                                  current_month).top_global, 5)
               ELSE <<>>
       IN  /\ action_plan' = plan
           /\ result' = [no_match |-> TRUE, readiness |-> readiness, recommendations |-> <<>>,
                         top_university_options |-> top_universities,
                         recovery_plan |-> <<recovery>>,
                         seven_day_actions |-> plan.seven_day_actions,
                         thirty_day_plan |-> plan.thirty_day_plan]
    /\ pc' = "done"
    /\ UNCHANGED <<inputs, current_month, i, gate, eligible, rejection_reasons, readiness,
                   recommendations, history, ticks, fnvars, univars>>

\* The plan left to the matching step: the shortlist is taken and no action
\* plan is built before the universities are matched.
SelectWithoutPlan ==
    /\ pc = "ranked"
    /\ eligible # <<>>
    /\ LET recs == Shortlist(eligible, top_n)
       IN  recommendations' =
               [k \in DOMAIN recs |-> [recs[k] EXCEPT !.readiness_score = readiness.readiness_score]]
    /\ pc' = "matching"
    /\ UNCHANGED <<inputs, current_month, i, gate, eligible, rejection_reasons, readiness,
                   action_plan, result, history, ticks, fnvars, univars>>

\* The shortlist, its action plan and the readiness score on each entry.
Select ==
    /\ pc = "ranked"
    /\ eligible # <<>>
    /\ LET recs == Shortlist(eligible, top_n)
       IN  /\ action_plan' = build_action_plan(student_input, AggregateMissing(recs))
           /\ recommendations' =
                  [k \in DOMAIN recs |-> [recs[k] EXCEPT !.readiness_score = readiness.readiness_score]]
    /\ pc' = "matching"
    /\ UNCHANGED <<inputs, current_month, i, gate, eligible, rejection_reasons, readiness,
                   result, history, ticks, fnvars, univars>>

\* University matching, the shortlist actions and the returned mapping.
Match ==
    /\ pc = "matching"
    /\ result' =
           With(IF university_programs # <<>>
                THEN build_university_matches(recommendations, student_input, university_programs,
                                              current_month)
                ELSE [recommendations |-> recommendations, top_global |-> <<>>], LAMBDA m :
           With(ShortlistPlan(action_plan, m.top_global), LAMBDA plan :
                [no_match |-> FALSE, readiness |-> readiness,
                 recommendations |-> m.recommendations,
                 top_university_options |-> m.top_global,
                 recovery_plan |-> <<>>,
                 seven_day_actions |-> plan.seven_day_actions,
                 thirty_day_plan |-> plan.thirty_day_plan]))
    /\ recommendations' = result'.recommendations
    /\ action_plan' = [seven_day_actions |-> result'.seven_day_actions,
                       thirty_day_plan |-> result'.thirty_day_plan]
    /\ pc' = "done"
    /\ UNCHANGED <<inputs, current_month, i, gate, eligible, rejection_reasons, readiness,
                   history, ticks, fnvars, univars>>

\* The caller calls again with the same arguments.
CallAgain ==
    /\ pc = "done"
    /\ calls < MaxCalls
    /\ prev_result' = result
    /\ prev_month' = current_month
    /\ pc' = "idle"
    /\ UNCHANGED <<inputs, current_month, locals, result, calls, ticks, fnvars, univars>>

\* The calendar month changes between two calls.
Tick ==
    /\ pc = "idle"
    /\ calls > 0
    /\ ticks < MaxTicks
    /\ current_month' = (current_month % 12) + 1
    /\ ticks' = ticks + 1
    /\ UNCHANGED <<inputs, pc, locals, result, history, fnvars, univars>>

\* ------------------------------------------- one rule and one profile

\* evaluate_rule_gate(rule, student_input)
ApplyGate ==
    /\ fpc = "input"
    /\ fn_out' = [fn_out EXCEPT !.gate = evaluate_rule_gate(fn_rule, fn_profile)]
    /\ fpc' = "gated"
    /\ UNCHANGED <<inputs, current_month, pc, locals, result, history, ticks, fn_rule, fn_profile, univars>>

\* compute_fit_score(rule, student_input), with the five ScoreDetails it sums.
ApplyScore ==
    /\ fpc = "gated"
    /\ fn_out' = [fn_out EXCEPT
                     !.interest = score_interest(fn_rule, fn_profile),
                     !.academic = score_academic(fn_rule, fn_profile),
                     !.budget = score_budget(fn_rule, fn_profile),
                     !.english = score_english(fn_rule, fn_profile),
                     !.constraints = score_constraints(fn_rule, fn_profile),
                     !.fit = compute_fit_score(fn_rule, fn_profile)]
    /\ fpc' = "scored"
    /\ UNCHANGED <<inputs, current_month, pc, locals, result, history, ticks, fn_rule, fn_profile, univars>>

\* compute_readiness_score(student_input)
ApplyReadiness ==
    /\ fpc = "scored"
    /\ fn_out' = [fn_out EXCEPT !.readiness = compute_readiness_score(fn_profile)]
    /\ fpc' = "ready"
    /\ UNCHANGED <<inputs, current_month, pc, locals, result, history, ticks, fn_rule, fn_profile, univars>>

\* --------------------------------------------- one program, one pool

\* _score_university_option(program, student_input, pathway_tags)
ApplyOption ==
    /\ upc = "input"
    /\ u_option' = _score_university_option(u_program, u_profile, _norm_set(_as_list(u_tags)),
                                            current_month)
    /\ upc' = "scored"
    /\ UNCHANGED <<inputs, current_month, pc, locals, result, history, ticks, fnvars,
                   u_program, u_profile, u_tags, u_programs, u_options, u_pool, u_top>>

\* The scoring, the sort and the cut of one recommendation's options in
\* build_university_matches.
ApplyTopOptions ==
    /\ upc = "list"
    /\ u_options' = TopOptions(u_tags, u_profile, u_programs, current_month)
    /\ upc' = "listed"
    /\ UNCHANGED <<inputs, current_month, pc, locals, result, history, ticks, fnvars,
                   u_program, u_profile, u_tags, u_option, u_programs, u_pool, u_top>>

\* The dedup and the global sort of build_university_matches on a pooled
\* list of options.
ApplyTopGlobal ==
    /\ upc = "pool"
    /\ u_top' = TopGlobal(u_pool)
    /\ upc' = "pooled"
    /\ UNCHANGED <<inputs, current_month, pc, locals, result, history, ticks, fnvars,
                   u_program, u_profile, u_tags, u_option, u_programs, u_options, u_pool>>

\* ---------------------------------------------------------- input sets

MaxCredits == 10

CreditValues == {NoneInt} \cup 0..MaxCredits

SubjectRequirements ==
    {<<>>,
     << <<"math", "C">> >>,
     << <<"Math", "b">>, <<"english", "C">> >>,
     << <<"english", "A">>, <<"math", "C">> >>,
     << <<"math", "X">> >>}

SubjectGrades ==
    {<<>>,
     << <<"math", "B">>, <<"english", "B">> >>,
     << <<"Math", "c">>, <<"math", "b">>, <<"English", "C">> >>,
     << <<"math", "D">>, <<"english", "A">> >>,
     << <<"math", "B">>, <<"english", "">> >>,
     << <<"math", "X">>, <<"english", "B">> >>}

\* SPM rules against SPM credits and grades.
SpmCases ==
    {<<[BaseRule EXCEPT !.active = a, !.min_spm_credits = m, !.required_subjects_json = q],
       [BaseProfile EXCEPT !.student_level = l, !.spm_credits = c, !.subjects = g]>> :
        a \in BOOLEAN, m \in {NoneInt, 0, 3, 5, 8}, q \in SubjectRequirements,
        l \in {"SPM", NoneStr}, c \in CreditValues, g \in SubjectGrades}

\* Diploma rules against a CGPA, in hundredths.
DiplomaCases ==
    {<<[DiplomaRule EXCEPT !.min_cgpa = m, !.student_level = rl],
       [DiplomaProfile EXCEPT !.cgpa = c, !.student_level = l]>> :
        m \in {NoneInt, 0, 200, 250, 300}, rl \in {"Diploma", "SPM"},
        c \in {NoneInt, 0, 180, 199, 200, 204, 205, 250, 260, 261, 300, 375, 400},
        l \in {"Diploma", "SPM", "STPM"}}

BudgetCases ==
    {<<[FlexibleRule EXCEPT !.budget_min = lo, !.budget_max = hi],
       [BaseProfile EXCEPT !.budget_monthly = b]>> :
        lo \in {NoneInt, 0, 800, 1000, 3000}, hi \in {NoneInt, 0, 1200, 3500},
        b \in {NoneInt, 0, 600, 639, 640, 679, 680, 799, 800, 849, 850, 999, 1000, 1200, 1201,
               1499, 1500, 2399, 2400, 2549, 2550, 3000, 3500, 3501}}

EnglishCases ==
    {<<[FlexibleRule EXCEPT !.english_min = q],
       [BaseProfile EXCEPT !.english_self = e, !.english_test_score = t]>> :
        q \in {NoneStr, "", "Beginner", "Intermediate", "Advanced", "Fluent"},
        e \in {NoneStr, "Beginner", "Intermediate", "Advanced", "Native"},
        t \in {NoneInt, 0, 49, 50, 74, 75, 100}}

DestinationCases ==
    {<<[FlexibleRule EXCEPT !.destination_tags = d],
       [BaseProfile EXCEPT !.destination_preference = p, !.destination_tags = s,
                           !.willing_relocate = w]>> :
        d \in {<<>>, <<"Malaysia">>, <<"MALAYSIA">>, <<"Australia">>, <<"UK", "Malaysia">>, <<" ">>},
        p \in {NoneStr, "malaysia_only", "open_overseas"},
        s \in {<<>>, <<"Malaysia">>, <<"Australia", "UK">>, <<"UK">>},
        w \in BOOLEAN}

ConstraintCases ==
    {<<[FlexibleRule EXCEPT !.scholarship_likelihood = band,
                           !.constraints_json = [work_part_time_ok |-> ok, timeline_fast_track |-> fast]],
       [BaseProfile EXCEPT !.scholarship_needed = sn, !.need_work_part_time = pt,
                           !.timeline_urgency = u, !.family_constraints = f]>> :
        band \in {"High", "Medium", "Low", NoneStr}, ok \in BOOLEAN, fast \in BOOLEAN,
        sn \in BOOLEAN, pt \in BOOLEAN, u \in {"normal", "urgent", NoneStr},
        f \in {"none", "financial"}}

InterestCases ==
    {<<[FlexibleRule EXCEPT !.interest_tags = rt], [BaseProfile EXCEPT !.interest_tags = st]>> :
        rt \in {<<>>, <<" ">>, <<"IT">>, <<"IT", " IT ">>, <<"IT", "Engineering">>,
                <<"IT", "Business", "Engineering">>},
        st \in {<<>>, <<"it">>, <<"Business", "IT">>, <<"IT", "Engineering", "Business">>}}

\* Profiles across the four parts of the readiness score.
ReadinessCases ==
    {<<FlexibleRule,
       [BaseProfile EXCEPT !.spm_credits = c, !.english_self = e, !.english_test_score = t,
                           !.budget_monthly = b, !.preparedness_checklist = k]>> :
        c \in CreditValues, e \in {"Beginner", "Intermediate", "Advanced"}, t \in {NoneInt, 49, 75},
        b \in {NoneInt, 799, 800, 1499, 1500},
        k \in {<<>>, <<"CV drafted", "Transcript ready">>,
               <<"Transcript ready", "CV drafted", "Shortlisted institutions", "Passport ready", "Budget planned">>,
               <<"Transcript ready", "CV drafted", "Shortlisted institutions", "Passport ready", "Budget planned", "Referees contacted">>}}
    \cup
    {<<DiplomaRule,
       [DiplomaProfile EXCEPT !.cgpa = c, !.english_self = e, !.budget_monthly = b,
                              !.preparedness_checklist = k]>> :
        c \in {NoneInt, 0, 5, 180, 205, 305, 315, 375, 400}, e \in {NoneStr, "Native", "Advanced"},
        b \in {0, 900, 5200},
        k \in {<<>>, <<"Transcript ready", "CV drafted", "Shortlisted institutions", "Passport ready", "Budget planned">>}}

CatalogCases == {<<r, p>> : r \in RuleCatalog, p \in Profiles}

\* A profile that takes every point of a rule, and one that takes few.
CeilingCases ==
    {<<BaseRule, [BaseProfile EXCEPT !.english_test_score = 80]>>,
     <<[DiplomaRule EXCEPT !.interest_tags = <<"IT">>, !.english_min = "Intermediate",
                           !.min_cgpa = 300, !.budget_min = 800, !.budget_max = NoneInt,
                           !.scholarship_likelihood = "High"],
       [DiplomaProfile EXCEPT !.cgpa = 375, !.english_test_score = 75,
                              !.timeline_urgency = "normal"]>>,
     <<[BaseRule EXCEPT !.english_min = "Advanced", !.scholarship_likelihood = "Low",
                        !.constraints_json = [work_part_time_ok |-> FALSE,
                                              timeline_fast_track |-> FALSE]],
       [LowProfile EXCEPT !.student_level = NoneStr, !.interest_tags = <<>>,
                          !.timeline_urgency = "urgent"]>>}

FnCases ==
    SpmCases \cup DiplomaCases \cup BudgetCases \cup EnglishCases \cup DestinationCases
      \cup ConstraintCases \cup InterestCases \cup ReadinessCases \cup CatalogCases
      \cup CeilingCases

MaxPool == 10

\* Pooled options: n items over m (university, program) pairs taken with
\* stride s, their scores following pattern p.
PoolItem(pair, score) ==
    [university_name |-> <<"University", pair \div 2>>,
     program_name |-> <<"Program", pair % 2>>,
     match_score |-> score]

PoolScore(p, k) ==
    CASE p = 1 -> 100 * k
      [] p = 2 -> 10000 - 100 * k
      [] p = 3 -> 5000
      [] OTHER -> 2500 * (k % 3) + 50 * (k % 2)

PoolCases ==
    {[k \in 1..n |-> PoolItem((k * s) % m, PoolScore(p, k))] :
        n \in 0..MaxPool, s \in 1..3, m \in {3, 5, 9, 10, 11}, p \in 1..4}

\* One program against one profile, under the tags of a pathway.
OptionProfiles == Profiles \cup {StrongProfile}
OptionTags == {<<>>, <<"IT">>, <<"Business", "Engineering">>}

\* A program with no requirement but its tuition against a budget.
TuitionCases ==
    {<<[FoundationProgram EXCEPT !.tuition_yearly_min_myr = t, !.tuition_yearly_max_myr = hi],
       [BaseProfile EXCEPT !.budget_monthly = b], <<>>, 1>> :
        t \in {NoneInt, 0, 12000, 15000, 18001}, hi \in {NoneInt, 20000},
        b \in {NoneInt, 0, 799, 800, 999, 1000, 1199, 1200, 1250, 1251, 1500, 1501}}

\* A program with no requirement, in one country, against a student's
\* destination preference and selected destinations.
CountryCases ==
    {<<[FoundationProgram EXCEPT !.country = c],
       [BaseProfile EXCEPT !.destination_preference = p, !.destination_tags = d], <<>>, 1>> :
        c \in {"Malaysia", "MALAYSIA", "Australia", "Singapore", NoneStr},
        p \in {"malaysia_only", "open_overseas"},
        d \in {<<>>, <<"Malaysia">>, <<"Australia", "UK">>, <<"AUSTRALIA">>}}

OptionCases ==
    {<<g, p, t, m>> : g \in Range(OptionCatalog), p \in OptionProfiles,
                     t \in OptionTags, m \in {1, 6}}
      \cup TuitionCases \cup CountryCases

\* A list of programs against one profile, under the tags of a pathway.
MaxOptionPrograms == 5

OptionsCases ==
    {<<g, p, t, m>> : g \in SubSequences(OptionCatalog, MaxOptionPrograms), p \in OptionProfiles,
                     t \in OptionTags, m \in {1, 6}}

\* Rule lists that give the university matcher several recommendations.
MatchRuleLists ==
    {<<>>, <<BaseRule>>, <<OverseasRule, BaseRule>>, <<FlexibleRule, OverseasRule, TwinRule>>,
     <<DiplomaRule>>, <<InactiveRule, DiplomaRule>>}

\* ------------------------------------------------------ specifications

EvalAtRest ==
    /\ i = 1 /\ gate = NoGate /\ eligible = <<>> /\ rejection_reasons = <<>>
    /\ readiness = NoReadiness /\ recommendations = <<>> /\ action_plan = NoPlan
    /\ result = NoResult /\ calls = 0 /\ ticks = 0 /\ prev_result = NoResult /\ prev_month = 0

FnOff == fpc = "off" /\ fn_rule = BaseRule /\ fn_profile = BaseProfile /\ fn_out = NoOut

UniAtRest ==
    /\ u_program = BaseProgram /\ u_profile = BaseProfile /\ u_tags = <<>> /\ u_option = <<>>
    /\ u_programs = <<>> /\ u_options = <<>> /\ u_pool = <<>> /\ u_top = <<>>

UniOff == upc = "off" /\ UniAtRest

\* A call without university programs: every short rule list, every top_n.
InitRanking ==
    /\ rules \in RuleLists
    /\ student_input \in Profiles
    /\ top_n \in TopNs
    /\ university_programs = <<>>
    /\ current_month = 1
    /\ pc = "idle" /\ EvalAtRest /\ FnOff /\ UniOff

\* A call on rules that all reject the profile.
InitBlocked ==
    /\ rules \in BlockedRuleLists
    /\ student_input = BaseProfile
    /\ top_n = DefaultTopN
    /\ university_programs = <<>>
    /\ current_month = 1
    /\ pc = "idle" /\ EvalAtRest /\ FnOff /\ UniOff

\* A call on a pathway abroad and local ones.
InitDestination ==
    /\ rules \in DestinationRuleLists
    /\ student_input \in {BaseProfile, OverseasProfile, HomeboundProfile, TightProfile}
    /\ top_n = DefaultTopN
    /\ university_programs = <<>>
    /\ current_month = 1
    /\ pc = "idle" /\ EvalAtRest /\ FnOff /\ UniOff

\* A call for a student whose English is under the rules' minimum, with
\* or without university programs.
InitShortlist ==
    /\ rules \in {<<BaseRule>>, <<TwinRule, BaseRule>>, <<OverseasRule>>, <<FlexibleRule, BaseRule>>}
    /\ student_input \in {BeginnerProfile, [BeginnerProfile EXCEPT !.scholarship_needed = TRUE]}
    /\ top_n = DefaultTopN
    /\ university_programs \in {<<>>, <<BaseProgram>>, <<FoundationProgram, BaseProgram, TwinProgram>>,
                                 <<OverseasProgram>>}
    /\ current_month = 1
    /\ pc = "idle" /\ EvalAtRest /\ FnOff /\ UniOff

\* A call with university programs, in any month.
InitMatching ==
    /\ rules \in MatchRuleLists
    /\ student_input \in Profiles
    /\ top_n = DefaultTopN
    /\ university_programs \in ProgramLists \ {<<>>}
    /\ current_month \in Months
    /\ pc = "idle" /\ EvalAtRest /\ FnOff /\ UniOff

\* The gate, the scorers and the readiness score on one rule and one profile.
InitFn ==
    /\ \E c \in FnCases : fn_rule = c[1] /\ fn_profile = c[2]
    /\ fpc = "input" /\ fn_out = NoOut
    /\ rules = <<>> /\ student_input = BaseProfile /\ top_n = DefaultTopN
    /\ university_programs = <<>> /\ current_month = 1
    /\ pc = "off" /\ EvalAtRest /\ UniOff

EvalOff ==
    /\ rules = <<>> /\ student_input = BaseProfile /\ top_n = DefaultTopN
    /\ university_programs = <<>> /\ pc = "off" /\ EvalAtRest

\* _score_university_option on one program, one profile and one month.
InitOption ==
    /\ \E c \in OptionCases :
          u_program = c[1] /\ u_profile = c[2] /\ u_tags = c[3] /\ current_month = c[4]
    /\ upc = "input" /\ u_option = <<>> /\ u_programs = <<>> /\ u_options = <<>>
    /\ u_pool = <<>> /\ u_top = <<>>
    /\ EvalOff /\ FnOff

\* One recommendation's matching on a list of programs.
InitOptions ==
    /\ \E c \in OptionsCases :
          u_programs = c[1] /\ u_profile = c[2] /\ u_tags = c[3] /\ current_month = c[4]
    /\ upc = "list" /\ u_options = <<>> /\ u_program = BaseProgram /\ u_option = <<>>
    /\ u_pool = <<>> /\ u_top = <<>>
    /\ EvalOff /\ FnOff

\* The pooled options of several recommendations.
InitPool ==
    /\ u_pool \in PoolCases
    /\ upc = "pool" /\ u_top = <<>>
    /\ u_program = BaseProgram /\ u_profile = BaseProfile /\ u_tags = <<>> /\ u_option = <<>>
    /\ u_programs = <<>> /\ u_options = <<>>
    /\ current_month = 1 /\ EvalOff /\ FnOff

Init == InitRanking \/ InitBlocked \/ InitDestination \/ InitShortlist \/ InitMatching \/ InitFn \/ InitOption \/ InitOptions \/ InitPool

Next ==
    \/ Call
    \/ GateRule
    \/ ScoreRule
    \/ Rank
    \/ NoMatch
    \/ Select
    \/ Match
    \/ ApplyGate
    \/ ApplyScore
    \/ ApplyReadiness
    \/ ApplyOption
    \/ ApplyTopOptions
    \/ ApplyTopGlobal

Spec == Init /\ [][Next]_vars

\* One call taken alone, with or without university programs. The function
\* runs on one thread to its return, so each of its steps is taken once it
\* can be.
InitPass ==
    /\ rules \in MatchRuleLists
    /\ student_input \in Profiles
    /\ top_n = DefaultTopN
    /\ university_programs \in ProgramLists
    /\ current_month = 1
    /\ pc = "idle" /\ EvalAtRest /\ FnOff /\ UniOff

NextPass ==
    \/ Call
    \/ GateRule
    \/ ScoreRule
    \/ Rank
    \/ NoMatch
    \/ Select
    \/ Match

PassSpec == InitPass /\ [][NextPass]_vars /\ WF_vars(NextPass)

\* Two calls in a row with the same arguments, the month free to change
\* between them.
NextTwice ==
    \/ Call
    \/ GateRule
    \/ ScoreRule
    \/ Rank
    \/ NoMatch
    \/ Select
    \/ Match
    \/ CallAgain
    \/ Tick

TwiceSpec == InitMatching /\ [][NextTwice]_vars

\* ----------------------------------------------------------- properties

\* The positions in rules of the rules that pass evaluate_rule_gate.
PassingRules == {k \in DOMAIN rules : evaluate_rule_gate(rules[k], student_input).passed}

\* C1: evaluate_rules returns no_match exactly when no rule passes the
\* gate; then recommendations is empty and recovery_plan is present with at
\* least three unlock_steps; otherwise no_match is False, recommendations is
\* non-empty and recovery_plan is None.
NoMatchIffNoRulePasses ==
    pc = "done" =>
        IF PassingRules = {}
        THEN /\ result.no_match
             /\ result.recommendations = <<>>
             /\ Len(result.recovery_plan) = 1
             /\ Len(result.recovery_plan[1].unlock_steps) >= 3
        ELSE /\ ~result.no_match
             /\ result.recommendations # <<>>
             /\ result.recovery_plan = <<>>

\* A call over several rules none of which passes has returned its
\* recovery plan, with a local alternative in it.
NoMatchReturned ==
    /\ pc = "done"
    /\ Len(rules) >= 2
    /\ PassingRules = {}
    /\ result.no_match
    /\ Len(result.recovery_plan) = 1
    /\ result.recovery_plan[1].alternative_local_pathways # <<>>
    /\ result.recovery_plan[1].blocked_inputs # <<>>

\* C2: in a match result, recommendations is a prefix of the passing rules
\* in descending (fit_score, priority_weight) order: each recommendation is
\* a passing rule with that rule's score, neighbours do not increase in the
\* key, no passing rule left out has a greater key than one included, and
\* the first recommendation has the maximal fit score.
RecommendationsRankedPrefix ==
    (pc = "done" /\ ~result.no_match) =>
        LET recs == result.recommendations
            Fit(k) == compute_fit_score(rules[k], student_input).fit_score
            KeyGreater(f1, w1, f2, w2) == f1 > f2 \/ (f1 = f2 /\ w1 > w2)
            included == {k \in PassingRules : \E j \in DOMAIN recs : recs[j].rule_id = rules[k].rule_id}
        IN  /\ \A j \in DOMAIN recs : \E k \in PassingRules :
                  /\ recs[j].rule_id = rules[k].rule_id
                  /\ recs[j].fit_score = Fit(k)
                  /\ recs[j].priority_weight = rules[k].priority_weight
            /\ \A j \in 1..(Len(recs) - 1) :
                  ~KeyGreater(recs[j + 1].fit_score, recs[j + 1].priority_weight,
                              recs[j].fit_score, recs[j].priority_weight)
            /\ \A left_out \in PassingRules \ included : \A k \in included :
                  ~KeyGreater(Fit(left_out), rules[left_out].priority_weight,
                              Fit(k), rules[k].priority_weight)
            /\ recs # <<>>
            /\ \A k \in PassingRules : recs[1].fit_score >= Fit(k)

\* A match result whose shortlist leaves a passing rule out and holds two
\* neighbours of equal fit score that only the priority weight orders, the
\* one of higher priority later in rules.
RankedWithTieAndCut ==
    /\ pc = "done"
    /\ ~result.no_match
    /\ Cardinality(PassingRules) > Len(result.recommendations)
    /\ \E j \in 1..(Len(result.recommendations) - 1) :
          /\ result.recommendations[j].fit_score = result.recommendations[j + 1].fit_score
          /\ result.recommendations[j].priority_weight > result.recommendations[j + 1].priority_weight
          /\ \E a, b \in DOMAIN rules :
                /\ a < b
                /\ rules[a].rule_id = result.recommendations[j + 1].rule_id
                /\ rules[b].rule_id = result.recommendations[j].rule_id

\* C3: with E the number of passing rules, the length of recommendations
\* is max(3, min(top_n, E)) limited to E: at least 3 when E >= 3 whatever
\* top_n is, exactly top_n when E > top_n >= 3, and E when E < 3.
ShortlistLength ==
    pc = "done" =>
        LET E == Cardinality(PassingRules)
            n == Len(result.recommendations)
            wanted == IF top_n < E THEN top_n ELSE E
            floored == IF wanted < 3 THEN 3 ELSE wanted
        IN  /\ n = (IF floored < E THEN floored ELSE E)
            /\ E >= 3 => n >= 3
            /\ (E > top_n /\ top_n >= 3) => n = top_n
            /\ E < 3 => n = E

\* Four rules pass, top_n asks for none, and three are recommended.
ShortlistFlooredAtThree ==
    /\ pc = "done"
    /\ Cardinality(PassingRules) >= 4
    /\ top_n <= 0
    /\ Len(result.recommendations) = 3

\* C4: evaluate_rule_gate stops at the first failing check: a failed gate
\* carries exactly one missing entry and a passed gate none; an active rule
\* of another student level than the profile's fails with missing equal to
\* ["Student level mismatch"] and nothing matched or borderline.
GateShortCircuits ==
    /\ fpc \in {"gated", "scored", "ready"} =>
          LET g == fn_out.gate
          IN  /\ ~g.passed => Len(g.missing) = 1
              /\ g.passed => g.missing = <<>>
              /\ (fn_rule.active /\ fn_rule.student_level # fn_profile.student_level) =>
                    /\ ~g.passed
                    /\ g.missing = << <<"Student level mismatch">> >>
                    /\ g.matched = <<>>
                    /\ g.borderline = <<>>
    /\ pc = "scoring" => (gate.passed /\ gate.missing = <<>>)
    /\ (pc = "gating" /\ i > 1 /\ ~gate.passed) => Len(gate.missing) = 1

\* The gate has turned down a rule with two required subjects for a
\* profile that has a grade for neither, and reports the first alone.
GateFailedOnce ==
    /\ fpc = "gated"
    /\ Len(fn_rule.required_subjects_json) = 2
    /\ fn_profile.subjects = <<>>
    /\ ~fn_out.gate.passed
    /\ fn_out.gate.matched # <<>>
    /\ Len(fn_out.gate.missing) = 1
    /\ fn_out.gate.missing[1][1] = "Missing subject grade for {subject}"
    /\ fn_out.gate.missing[1][2] = fn_rule.required_subjects_json[1][1]

InputsNeverMutated == [][inputs' = inputs]_vars

\* A match result whose recommendations carry university options, the
\* rules out of priority order.
MatchedWithOptions ==
    /\ pc = "done"
    /\ ~result.no_match
    /\ result.top_university_options # <<>>
    /\ result.recommendations[1].university_options # <<>>
    /\ Len(rules) >= 2
    /\ rules[1].priority_weight < rules[2].priority_weight

\* C7: for an SPM rule with min_spm_credits stated and an SPM profile, a
\* profile that differs only by having more credits has an academic score,
\* and an academic component, that is not lower.
AcademicMonotoneInCredits ==
    (/\ fpc \in {"scored", "ready"}
     /\ fn_rule.student_level = "SPM"
     /\ fn_rule.min_spm_credits # NoneInt
     /\ fn_profile.student_level = "SPM"
     /\ fn_profile.spm_credits # NoneInt) =>
        \A more \in 0..MaxCredits :
            more > fn_profile.spm_credits =>
                LET richer == [fn_profile EXCEPT !.spm_credits = more]
                IN  /\ score_academic(fn_rule, richer).score >= fn_out.academic.score
                    /\ compute_fit_score(fn_rule, richer).component_scores.academic
                           >= fn_out.fit.component_scores.academic

\* A scored SPM profile below the rule's credits whose academic score rises
\* with one credit more and no longer rises at the cap.
AcademicRisesWithCredits ==
    /\ fpc = "scored"
    /\ fn_rule.student_level = "SPM"
    /\ fn_profile.student_level = "SPM"
    /\ fn_rule.min_spm_credits = 5
    /\ fn_profile.spm_credits = 4
    /\ fn_rule.required_subjects_json # <<>>
    /\ score_academic(fn_rule, [fn_profile EXCEPT !.spm_credits = 5]).score > fn_out.academic.score
    /\ score_academic(fn_rule, [fn_profile EXCEPT !.spm_credits = 6]).score
           = score_academic(fn_rule, [fn_profile EXCEPT !.spm_credits = 7]).score

\* C8: the five fit components stay in their ranges: interest 0..30,
\* academic 0..25, budget 0..20, english 0..15 and constraints 0..10, the
\* last floored at 0 when every deduction applies.
ComponentsWithinBounds ==
    /\ fpc \in {"scored", "ready"} =>
          /\ fn_out.interest.score >= 0 /\ fn_out.interest.score <= 30 * Scale
          /\ fn_out.academic.score >= 0 /\ fn_out.academic.score <= 25 * Scale
          /\ fn_out.budget.score >= 0 /\ fn_out.budget.score <= 20 * Scale
          /\ fn_out.english.score >= 0 /\ fn_out.english.score <= 15 * Scale
          /\ fn_out.constraints.score >= 0 /\ fn_out.constraints.score <= 10 * Scale
          /\ fn_out.fit.component_scores.interest \in 0..3000
          /\ fn_out.fit.component_scores.academic \in 0..2500
          /\ fn_out.fit.component_scores.budget \in 0..2000
          /\ fn_out.fit.component_scores.english \in 0..1500
          /\ fn_out.fit.component_scores.constraints \in 0..1000
    /\ \A k \in DOMAIN eligible :
          /\ eligible[k].component_scores.interest \in 0..3000
          /\ eligible[k].component_scores.academic \in 0..2500
          /\ eligible[k].component_scores.budget \in 0..2000
          /\ eligible[k].component_scores.english \in 0..1500
          /\ eligible[k].component_scores.constraints \in 0..1000

\* All four deductions apply, 11.5 points in all, and the constraints score
\* is 0.
ConstraintsFloored ==
    /\ fpc = "scored"
    /\ fn_profile.scholarship_needed
    /\ fn_profile.need_work_part_time
    /\ fn_profile.timeline_urgency = "urgent"
    /\ fn_profile.family_constraints # "none"
    /\ Len(fn_out.constraints.missing) = 2
    /\ Len(fn_out.constraints.borderline) = 2
    /\ fn_out.constraints.score = 0
    /\ fn_out.fit.component_scores.constraints = 0

\* C9: in every recommendation each of matched_conditions,
\* borderline_conditions and missing_conditions is the gate's list for the
\* rule followed by the scorers' fragments in the order interest, academic,
\* budget, english, constraints.
ExplanationGateFirst ==
    /\ fpc \in {"scored", "ready"} =>
          /\ fn_out.fit.explanation.matched_conditions =
                 fn_out.interest.matched \o fn_out.academic.matched \o fn_out.budget.matched
                   \o fn_out.english.matched \o fn_out.constraints.matched
          /\ fn_out.fit.explanation.borderline_conditions =
                 fn_out.interest.borderline \o fn_out.academic.borderline \o fn_out.budget.borderline
                   \o fn_out.english.borderline \o fn_out.constraints.borderline
          /\ fn_out.fit.explanation.missing_conditions =
                 fn_out.interest.missing \o fn_out.academic.missing \o fn_out.budget.missing
                   \o fn_out.english.missing \o fn_out.constraints.missing
    /\ pc = "done" =>
          \A j \in DOMAIN result.recommendations :
              \E k \in DOMAIN rules :
                  LET rec == result.recommendations[j]
                      g == evaluate_rule_gate(rules[k], student_input)
                      s1 == score_interest(rules[k], student_input)
                      s2 == score_academic(rules[k], student_input)
                      s3 == score_budget(rules[k], student_input)
                      s4 == score_english(rules[k], student_input)
                      s5 == score_constraints(rules[k], student_input)
                  IN  /\ rec.rule_id = rules[k].rule_id
                      /\ rec.explanation.matched_conditions =
                             g.matched \o s1.matched \o s2.matched \o s3.matched \o s4.matched
                               \o s5.matched
                      /\ rec.explanation.borderline_conditions =
                             g.borderline \o s1.borderline \o s2.borderline \o s3.borderline
                               \o s4.borderline \o s5.borderline
                      /\ rec.explanation.missing_conditions =
                             g.missing \o s1.missing \o s2.missing \o s3.missing \o s4.missing
                               \o s5.missing

\* A recommendation whose gate and scorers both left matched fragments and
\* both left borderline fragments.
ExplanationFromBoth ==
    /\ pc = "done"
    /\ \E j \in DOMAIN result.recommendations : \E k \in DOMAIN rules :
          LET rec == result.recommendations[j]
              g == evaluate_rule_gate(rules[k], student_input)
          IN  /\ rec.rule_id = rules[k].rule_id
              /\ g.matched # <<>>
              /\ g.borderline # <<>>
              /\ Len(rec.explanation.matched_conditions) > Len(g.matched)
              /\ Len(rec.explanation.borderline_conditions) > Len(g.borderline)

\* C10: compute_readiness_score returns an integer readiness_score in
\* 0..100 that is the sum of the four breakdown parts, clamped to 100,
\* rounded to a nearest integer, with academic in 0..40, english at most 25,
\* budget one of 6, 12, 20 and preparedness in 0..15; evaluate_rules returns
\* it whatever the rules are and stamps it on every recommendation.
ReadinessScoreSound ==
    LET Sound(r) ==
            LET b == r.breakdown
                total == b.academic + b.english + b.budget + b.preparedness
                clamped == IF total > 10000 THEN 10000 ELSE total
                gap == 100 * r.readiness_score - clamped
            IN  /\ r.readiness_score \in 0..100
                /\ 2 * gap <= 100 /\ 2 * gap >= -100
                /\ b.academic \in 0..4000
                /\ b.english <= 2500
                /\ b.budget \in {600, 1200, 2000}
                /\ b.preparedness \in 0..1500
    IN  /\ fpc = "ready" => Sound(fn_out.readiness)
        /\ pc = "done" =>
              /\ Sound(result.readiness)
              /\ result.readiness = compute_readiness_score(student_input)
              /\ \A j \in DOMAIN result.recommendations :
                    result.recommendations[j].readiness_score = result.readiness.readiness_score

\* A profile with more credits than the academic part counts and a
\* checklist longer than the preparedness part counts scores exactly 100.
ReadinessAtCeiling ==
    /\ fpc = "ready"
    /\ fn_profile.student_level = "SPM"
    /\ fn_profile.spm_credits > 8
    /\ Len(fn_profile.preparedness_checklist) > 5
    /\ fn_out.readiness.breakdown.academic = 4000
    /\ fn_out.readiness.breakdown.preparedness = 1500
    /\ fn_out.readiness.readiness_score = 100

\* C11: top_university_options of a match result has at most 8 entries, is
\* sorted by match_score descending, holds no two entries of the same
\* (university_name, program_name), keeps for each pair the highest
\* match_score among the pooled entries of that pair, and every entry is one
\* of the first two university_options of a recommendation.
TopGlobalDeduplicated ==
    LET SamePair(a, b) == a.university_name = b.university_name /\ a.program_name = b.program_name
        Sound(top, pool) ==
            /\ Len(top) <= 8
            /\ \A k \in 1..(Len(top) - 1) : top[k].match_score >= top[k + 1].match_score
            /\ \A k, h \in DOMAIN top : SamePair(top[k], top[h]) => k = h
            /\ \A k \in DOMAIN top :
                  /\ top[k] \in pool
                  /\ \A o \in pool : SamePair(o, top[k]) => o.match_score <= top[k].match_score
    IN  /\ (pc = "done" /\ ~result.no_match) =>
              Sound(result.top_university_options,
                    UNION {Range(Take(result.recommendations[j].university_options, 2)) :
                              j \in DOMAIN result.recommendations})
        /\ upc = "pooled" => Sound(u_top, Range(u_pool))

\* A match result where the same university and program is pooled twice
\* with two scores, the lower one first, and top_university_options holds
\* the higher one only.
TopGlobalReplaced ==
    /\ pc = "done"
    /\ ~result.no_match
    /\ \E j \in DOMAIN result.recommendations :
          /\ Len(result.recommendations[j].university_options) >= 2
          /\ \E j2 \in DOMAIN result.recommendations :
                /\ j2 > j
                /\ result.recommendations[j2].university_options # <<>>
                /\ LET a == result.recommendations[j].university_options[2]
                       b == result.recommendations[j2].university_options[1]
                   IN  /\ a.university_name = b.university_name
                       /\ a.program_name = b.program_name
                       /\ a.match_score < b.match_score
                       /\ b \in Range(result.top_university_options)
                       /\ a \notin Range(result.top_university_options)

\* C12: with a non-empty program list and a passing rule, each
\* recommendation's university_options holds at most 3 options, best
\* match_score first, and they are the highest-scoring of the programs that
\* survive the filters when scored under that recommendation's rule interest
\* tags; when a program survives, the first recommendation's options and
\* top_university_options are not empty.
UniversityOptionsTopThree ==
    LET Best(options, tags, profile, programs, month) ==
            LET scored == [k \in DOMAIN programs |->
                              _score_university_option(programs[k], profile,
                                                       _norm_set(_as_list(tags)), month)]
                survivors == {k \in DOMAIN programs : scored[k] # <<>>}
                n == Len(options)
            IN  /\ n <= 3
                /\ n = Min2(3, Cardinality(survivors))
                /\ \A j \in 1..(n - 1) : options[j].match_score >= options[j + 1].match_score
                /\ \E from \in [1..n -> survivors] :
                      /\ \A a, b \in 1..n : a # b => from[a] # from[b]
                      /\ \A j \in 1..n : options[j] = scored[from[j]][1]
                      /\ \A k \in survivors \ Range(from) :
                            \A j \in 1..n : scored[k][1].match_score <= options[j].match_score
        Survives(rec) ==
            \E k \in DOMAIN university_programs :
                _score_university_option(university_programs[k], student_input,
                                         _norm_set(_as_list(rec._rule_interest_tags)),
                                         current_month) # <<>>
    IN  /\ (pc = "done" /\ ~result.no_match /\ university_programs # <<>>) =>
              /\ \A j \in DOMAIN result.recommendations :
                    Best(result.recommendations[j].university_options,
                         result.recommendations[j]._rule_interest_tags,
                         student_input, university_programs, current_month)
              /\ Survives(result.recommendations[1]) =>
                    /\ result.recommendations[1].university_options # <<>>
                    /\ result.top_university_options # <<>>
        /\ upc = "listed" => Best(u_options, u_tags, u_profile, u_programs, current_month)

\* Four programs survive and the three kept are not the first three of the
\* list: the option left out is an earlier program with a lower score.
OptionsCutToThree ==
    /\ upc = "listed"
    /\ Len(u_options) = 3
    /\ Len(ScoredOptionsUnsorted(u_tags, u_profile, u_programs, current_month)) >= 4
    /\ ScoredOptionsUnsorted(u_tags, u_profile, u_programs, current_month)[1].program_code
          \notin {u_options[j].program_code : j \in 1..3}
    /\ u_options[1].match_score > u_options[3].match_score

\* C13: every result of evaluate_rules, on the match path with or without
\* university matches and on the no-match path, has between 3 and 5
\* seven_day_actions and between 4 and 6 thirty_day_plan items.
ActionPlanSizes ==
    pc = "done" =>
        /\ Len(result.seven_day_actions) >= 3 /\ Len(result.seven_day_actions) <= 5
        /\ Len(result.thirty_day_plan) >= 4 /\ Len(result.thirty_day_plan) <= 6
        /\ result.seven_day_actions = action_plan.seven_day_actions
        /\ result.thirty_day_plan = action_plan.thirty_day_plan

\* A match with university options for a student who needs a scholarship
\* and part-time work: the plan of six thirty-day items was cut to three
\* behind the three shortlist items.
ActionPlanWithShortlist ==
    /\ pc = "done" /\ ~result.no_match
    /\ result.top_university_options # <<>>
    /\ student_input.scholarship_needed /\ student_input.need_work_part_time
    /\ Len(build_action_plan(student_input, AggregateMissing(result.recommendations)).thirty_day_plan) = 6
    /\ Len(result.seven_day_actions) = 5
    /\ Len(result.thirty_day_plan) = 6
    /\ result.thirty_day_plan[1] = <<"Complete a personal statement draft tailored to your top 3 programs.">>

\* C14: in a no-match result, blocked_inputs holds at most 6 reasons,
\* without duplicates and ascending, each one a missing reason the gate
\* returned for some rule; alternative_local_pathways holds at most 3
\* entries, each taken from a rule of the profile's student_level whose
\* destination tags include Malaysia, by priority_weight descending.
RecoveryPlanSound ==
    (pc = "done" /\ result.no_match) =>
        LET plan == result.recovery_plan[1]
            blocked == plan.blocked_inputs
            alts == plan.alternative_local_pathways
            n == Len(alts)
            reasons == UNION {Range(evaluate_rule_gate(rules[k], student_input).missing) :
                                 k \in DOMAIN rules}
            local == {k \in DOMAIN rules :
                         /\ rules[k].student_level = student_input.student_level
                         /\ "malaysia" \in _norm_set(rules[k].destination_tags)}
        IN  /\ Len(blocked) <= 6
            /\ Len(blocked) = Min2(6, Cardinality(reasons))
            /\ \A a, b \in DOMAIN blocked :
                  a < b => /\ blocked[a] # blocked[b]
                           /\ LexLess(ReasonKey(blocked[a]), ReasonKey(blocked[b]))
            /\ \A a \in DOMAIN blocked : blocked[a] \in reasons
            /\ n <= 3
            /\ n = Min2(3, Cardinality(local))
            /\ \E from \in [1..n -> local] :
                  /\ \A a, b \in 1..n : a # b => from[a] # from[b]
                  /\ \A j \in 1..n :
                        alts[j] = [pathway_title |-> rules[from[j]].pathway_title,
                                   summary |-> rules[from[j]].pathway_summary,
                                   cost_estimate_text |-> rules[from[j]].cost_estimate_text]
                  /\ \A j \in 1..(n - 1) :
                        rules[from[j]].priority_weight >= rules[from[j + 1]].priority_weight
                  /\ \A k \in local \ Range(from) :
                        \A j \in 1..n : rules[k].priority_weight <= rules[from[j]].priority_weight

\* More than six distinct reasons and more than three local rules: both
\* lists were cut, and the first alternative is not the first local rule.
RecoveryPlanCut ==
    /\ pc = "done" /\ result.no_match
    /\ Cardinality(Range(rejection_reasons)) > 6
    /\ Len(rejection_reasons) > Cardinality(Range(rejection_reasons))
    /\ Len(result.recovery_plan[1].blocked_inputs) = 6
    /\ Len(FallbackLocalUnsorted(rules, student_input)) > 3
    /\ Len(result.recovery_plan[1].alternative_local_pathways) = 3
    /\ result.recovery_plan[1].alternative_local_pathways[1].pathway_title
          # FallbackLocalUnsorted(rules, student_input)[1].pathway_title

\* C15: no university option of a result breaks level compatibility or
\* activity: for an SPM profile every option is a Foundation or Diploma
\* program, for a Diploma profile a Bachelor or Top-up program, and no
\* option comes from an inactive program.
OptionsLevelCompatible ==
    LET Compatible(option, profile, programs) ==
            /\ profile.student_level = "SPM" => option.program_level \in {"Foundation", "Diploma"}
            /\ profile.student_level = "Diploma" => option.program_level \in {"Bachelor", "Top-up"}
            /\ \A k \in DOMAIN programs :
                  ~programs[k].active => option.program_code # programs[k].program_code
        AllCompatible(options, profile, programs) ==
            \A k \in DOMAIN options : Compatible(options[k], profile, programs)
    IN  /\ pc = "done" =>
              /\ AllCompatible(result.top_university_options, student_input, university_programs)
              /\ \A j \in DOMAIN result.recommendations :
                    AllCompatible(result.recommendations[j].university_options,
                                  student_input, university_programs)
        /\ upc = "scored" => AllCompatible(u_option, u_profile, <<u_program>>)
        /\ upc = "listed" => AllCompatible(u_options, u_profile, u_programs)

\* A list with an inactive program, a Bachelor program and a Diploma
\* program, matched for an SPM profile: options came back, none of them
\* from the first two.
OptionsFilteredByLevel ==
    /\ upc = "listed"
    /\ u_profile.student_level = "SPM"
    /\ \E a, b, c \in DOMAIN u_programs :
          /\ ~u_programs[a].active
          /\ u_programs[b].active /\ u_programs[b].program_level = "Bachelor"
          /\ ~UniExcludedByDestination(u_programs[b], u_profile)
          /\ u_programs[c].active /\ u_programs[c].program_level = "Diploma"
    /\ u_options # <<>>

\* C16: every university option's match_score lies in [0, 100]; the sum of
\* the tag, academic, English, IELTS, TOEFL, budget, intake and PTPTN parts
\* can pass 100, and the option then carries 100.
MatchScoreCapped ==
    LET InRange(options) ==
            \A k \in DOMAIN options :
                options[k].match_score >= 0 /\ options[k].match_score <= 100 * 100
    IN  /\ pc = "done" =>
              /\ InRange(result.top_university_options)
              /\ \A j \in DOMAIN result.recommendations :
                    InRange(result.recommendations[j].university_options)
        /\ upc = "listed" => InRange(u_options)
        /\ upc = "pooled" => InRange(u_top)
        /\ (upc = "scored" /\ u_option # <<>>) =>
              LET raw == UniSteps(u_program, u_profile, _norm_set(_as_list(u_tags)),
                                  current_month).score
              IN  /\ InRange(u_option)
                  /\ raw > 100 * Scale => u_option[1].match_score = 100 * 100
                  /\ raw <= 100 * Scale => u_option[1].match_score * Scale = raw * 100

\* Every part at its highest: the sum is 103 and the option carries 100.
MatchScoreOverHundred ==
    /\ upc = "scored" /\ u_option # <<>>
    /\ UniSteps(u_program, u_profile, _norm_set(_as_list(u_tags)), current_month).score
          = 103 * Scale
    /\ u_option[1].match_score = 100 * 100

\* C17: budget gate. For a rule with a budget_min (a number other than 0;
\* the code reads 0 as no minimum), a budget of at least budget_min is
\* recorded as matched "Budget minimum", a budget under budget_min and of at
\* least 80% of it as borderline "Budget slightly below pathway minimum",
\* and a budget under 80% of it fails the gate, with missing "Budget below
\* pathway minimum" when no earlier check failed; without budget_min the
\* budget never fails the gate.
BudgetGateBands ==
    fpc \in {"gated", "scored", "ready"} =>
        LET g == fn_out.gate
            budget == OrZero(fn_profile.budget_monthly)
            budget_min == fn_rule.budget_min
            Matched == <<"Budget minimum">> \in Range(g.matched)
            Borderline == <<"Budget slightly below pathway minimum">> \in Range(g.borderline)
            Missing == <<"Budget below pathway minimum">> \in Range(g.missing)
            \* the reasons of the checks that come after the budget check
            Later == {<<"English level significantly below requirement">>,
                      <<"Overseas-only pathway while student chose Malaysia only">>,
                      <<"Relocation not preferred">>}
            \* the gate got as far as the budget check
            Reached == <<"Student level">> \in Range(g.matched)
                         /\ (g.missing = <<>> \/ g.missing[1] \in Later \cup {<<"Budget below pathway minimum">>})
        IN  IF TruthyInt(budget_min)
            THEN /\ budget >= budget_min =>
                       /\ ~Missing /\ ~Borderline
                       /\ Reached => Matched
                 /\ (budget < budget_min /\ 10 * budget >= 8 * budget_min) =>
                       /\ ~Missing /\ ~Matched
                       /\ Reached => Borderline
                 /\ 10 * budget < 8 * budget_min =>
                       /\ ~g.passed /\ ~Matched /\ ~Borderline
                       /\ Range(g.missing) \cap Later = {}
                       /\ Reached => g.missing = << <<"Budget below pathway minimum">> >>
            ELSE ~Missing /\ ~Matched /\ ~Borderline

\* A budget of exactly 80% of budget_min: the gate passed, with the budget
\* as a borderline condition.
BudgetAtEightyPercent ==
    /\ fpc = "gated"
    /\ fn_rule.budget_min = 800 /\ fn_profile.budget_monthly = 640
    /\ fn_out.gate.passed
    /\ <<"Budget slightly below pathway minimum">> \in Range(fn_out.gate.borderline)

\* C18: English gate over Beginner < Intermediate < Advanced. A profile
\* more than one level below the rule's english_min fails the gate; one
\* level below is borderline "English one level below requirement"; the
\* same level is borderline "English at threshold"; a higher level is
\* matched "English readiness"; a missing english_self counts as Beginner.
EnglishGateBands ==
    fpc \in {"gated", "scored", "ready"} =>
        LET g == fn_out.gate
            Ordinal(level) == CASE level = "Beginner" -> 0
                                [] level = "Intermediate" -> 1
                                [] level = "Advanced" -> 2
            required == fn_rule.english_min
            own == IF fn_profile.english_self = NoneStr THEN "Beginner"
                   ELSE fn_profile.english_self
            Entries == {<<"English one level below requirement">>, <<"English at threshold">>}
                         \cap Range(g.borderline)
            Matched == <<"English readiness">> \in Range(g.matched)
            Missing == <<"English level significantly below requirement">> \in Range(g.missing)
            \* the reasons of the checks that come after the English check
            Later == {<<"Overseas-only pathway while student chose Malaysia only">>,
                      <<"Relocation not preferred">>}
            \* the gate got as far as the English check
            Reached == <<"Student level">> \in Range(g.matched)
                         /\ (g.missing = <<>> \/ g.missing[1] \in Later
                               \/ g.missing[1] = <<"English level significantly below requirement">>)
        IN  (required \in {"Beginner", "Intermediate", "Advanced"}
               /\ own \in {"Beginner", "Intermediate", "Advanced"}) =>
                /\ Ordinal(own) < Ordinal(required) - 1 =>
                      /\ ~g.passed /\ ~Matched /\ Entries = {}
                      /\ Range(g.missing) \cap Later = {}
                      /\ Reached => g.missing = << <<"English level significantly below requirement">> >>
                /\ Ordinal(own) = Ordinal(required) - 1 =>
                      /\ ~Missing /\ ~Matched
                      /\ Reached => Entries = {<<"English one level below requirement">>}
                /\ Ordinal(own) = Ordinal(required) =>
                      /\ ~Missing /\ ~Matched
                      /\ Reached => Entries = {<<"English at threshold">>}
                /\ Ordinal(own) > Ordinal(required) =>
                      /\ ~Missing /\ Entries = {}
                      /\ Reached => Matched

\* A profile without english_self against a rule that asks for Advanced:
\* the gate failed as it does for a Beginner.
EnglishMissingAsBeginner ==
    /\ fpc = "gated"
    /\ fn_profile.english_self = NoneStr /\ fn_rule.english_min = "Advanced"
    /\ ~fn_out.gate.passed
    /\ fn_out.gate.missing = << <<"English level significantly below requirement">> >>

\* C19: SPM academic gate. An active SPM rule passes its academic checks
\* for an SPM profile exactly when the credits are at least min_spm_credits
\* (if set) and the profile has, for every required subject (the name
\* compared in lower case), a grade at or above the required grade on the
\* scale G = 0 .. A+ = 9; credits at the threshold and grades equal to the
\* requirement are recorded as borderline, better ones as matched; a grade
\* or a requirement off the scale never satisfies the check.
SpmAcademicGate ==
    (fpc \in {"gated", "scored", "ready"} /\ fn_rule.active /\ fn_rule.student_level = "SPM"
       /\ fn_profile.student_level = "SPM") =>
        LET g == fn_out.gate
            credits == IF fn_profile.spm_credits = NoneInt THEN 0 ELSE fn_profile.spm_credits
            min_credits == fn_rule.min_spm_credits
            required == fn_rule.required_subjects_json
            OnScale(grade) == grade # NoneStr /\ Upper(grade) \in DOMAIN GRADE_SCALE
            Own(k) == SubjectGrade(fn_profile.subjects, Lower(required[k][1]))
            Meets(k) ==
                /\ OnScale(Own(k)) /\ OnScale(required[k][2])
                /\ GRADE_SCALE[Upper(Own(k))] >= GRADE_SCALE[Upper(required[k][2])]
            CreditsMeet == min_credits = NoneInt \/ credits >= min_credits
            Academic == {"SPM credits {credits} < {min_credits}",
                         "Missing subject grade for {subject}",
                         "{subject} below {needed_grade}"}
            Failed == \E j \in DOMAIN g.missing : g.missing[j][1] \in Academic
        IN  /\ Failed <=> ~(CreditsMeet /\ \A k \in DOMAIN required : Meets(k))
            /\ Failed => ~g.passed /\ Len(g.missing) = 1
            /\ (min_credits # NoneInt /\ credits = min_credits) =>
                  /\ <<"SPM credits at threshold">> \in Range(g.borderline)
                  /\ <<"SPM credits">> \notin Range(g.matched)
            /\ (min_credits # NoneInt /\ credits > min_credits) =>
                  /\ <<"SPM credits">> \in Range(g.matched)
                  /\ <<"SPM credits at threshold">> \notin Range(g.borderline)
            /\ ~Failed =>
                  \A k \in DOMAIN required :
                      IF Upper(Own(k)) = Upper(required[k][2])
                      THEN <<"{subject} at threshold {needed_grade}", required[k][1], required[k][2]>>
                               \in Range(g.borderline)
                      ELSE <<"{subject} requirement", required[k][1]>> \in Range(g.matched)
            /\ \A k \in DOMAIN required :
                  (~OnScale(Own(k)) \/ ~OnScale(required[k][2])) => Failed

\* A requirement that is not a grade of the scale: the profile's B does not
\* satisfy it and the gate failed on the subject.
GradeOffScaleFails ==
    /\ fpc = "gated"
    /\ fn_rule.active /\ fn_profile.student_level = "SPM"
    /\ fn_rule.required_subjects_json = << <<"math", "X">> >>
    /\ SubjectGrade(fn_profile.subjects, "math") = "B"
    /\ fn_out.gate.missing = << <<"{subject} below {needed_grade}", "math", "X">> >>
    /\ ~fn_out.gate.passed

\* C20: Malaysia-only and relocation gate. A rule whose destination tags
\* leave out Malaysia (compared in lower case; no tags count as Malaysia)
\* passes the gate only if the profile's destination_preference is not
\* malaysia_only and the student is willing to relocate; so under
\* malaysia_only, or with willing_relocate false, every recommendation comes
\* from a rule that includes Malaysia.
MalaysiaOnlyGate ==
    LET Inclusive(rule) ==
            \/ rule.destination_tags = <<>>
            \/ \E k \in DOMAIN rule.destination_tags :
                  Lower(Strip(rule.destination_tags[k])) = "malaysia"
        Preference(profile) ==
            IF profile.destination_preference = NoneStr THEN "malaysia_only"
            ELSE profile.destination_preference
        Free(profile) == Preference(profile) # "malaysia_only" /\ profile.willing_relocate
    IN  /\ (fpc \in {"gated", "scored", "ready"} /\ fn_out.gate.passed /\ ~Inclusive(fn_rule)) =>
              Free(fn_profile)
        /\ (pc = "scoring" /\ ~Inclusive(rules[i])) => Free(student_input)
        /\ (pc = "done" /\ ~Free(student_input)) =>
              \A j \in DOMAIN result.recommendations :
                  \A k \in DOMAIN rules :
                      rules[k].rule_id = result.recommendations[j].rule_id => Inclusive(rules[k])

\* A pathway abroad that a student who chose Malaysia only meets in all but
\* its destination: the gate rejected it and the result recommends the
\* local pathway alone.
AbroadRuleRejected ==
    /\ pc = "done" /\ ~result.no_match
    /\ student_input.destination_preference = "malaysia_only"
    /\ \E k \in DOMAIN rules :
          /\ rules[k].destination_tags = <<"Australia">>
          /\ evaluate_rule_gate(rules[k], student_input).missing
                = << <<"Overseas-only pathway while student chose Malaysia only">> >>
          /\ \A j \in DOMAIN result.recommendations :
                result.recommendations[j].rule_id # rules[k].rule_id

\* C21: under destination_preference open_overseas the destination check
\* never fails the gate. When the student's selected destination tags share
\* nothing with the rule's tags and the rule does not include Malaysia, the
\* gate records the borderline "Destination preference not directly
\* matched"; otherwise it records the matched "Destination preference"; the
\* check adds no missing reason. (Tags are the non-blank entries of the
\* lists; a list of blank entries only is no list the rule loader or the
\* wizard produces, and is left out here.)
OpenOverseasNeverFails ==
    (fpc \in {"gated", "scored", "ready"} /\ fn_profile.destination_preference = "open_overseas") =>
        LET g == fn_out.gate
            Tags(list) == {Lower(Strip(list[k])) : k \in {j \in DOMAIN list : Strip(list[j]) # ""}}
            rule_tags == IF fn_rule.destination_tags = <<>> THEN {"malaysia"}
                         ELSE Tags(fn_rule.destination_tags)
            selected == IF fn_profile.destination_tags = <<>> THEN {"malaysia"}
                        ELSE Tags(fn_profile.destination_tags)
            Borderline == <<"Destination preference not directly matched">> \in Range(g.borderline)
            Matched == <<"Destination preference">> \in Range(g.matched)
            Reached == <<"Student level">> \in Range(g.matched)
                         /\ (g.missing = <<>> \/ g.missing[1] = <<"Relocation not preferred">>)
        IN  /\ <<"Overseas-only pathway while student chose Malaysia only">> \notin Range(g.missing)
            /\ <<"Destination preference not directly matched">> \notin Range(g.missing)
            /\ (g.missing # <<>> /\ <<"Student level">> \in Range(g.matched)
                  /\ g.missing[1] = <<"Relocation not preferred">>) =>
                      ~fn_profile.willing_relocate /\ "malaysia" \notin rule_tags
            /\ (Reached /\ rule_tags # {} /\ selected # {}) =>
                  IF rule_tags \cap selected = {} /\ "malaysia" \notin rule_tags
                  THEN Borderline /\ ~Matched
                  ELSE Matched /\ ~Borderline
            /\ ~Reached => ~Borderline /\ ~Matched

\* A student open to the UK against a pathway to Australia, willing to
\* relocate: the gate passed with the destination as a borderline condition.
DestinationBorderlinePass ==
    /\ fpc = "gated"
    /\ fn_profile.destination_preference = "open_overseas"
    /\ fn_profile.destination_tags = <<"UK">>
    /\ fn_rule.destination_tags = <<"Australia">>
    /\ fn_out.gate.passed
    /\ <<"Destination preference not directly matched">> \in Range(fn_out.gate.borderline)

\* C22, as the spec states it: a program that declares a tuition minimum is
\* excluded whenever that tuition minimum exceeds 80% of the student's
\* annualized budget (budget_monthly x 12).
TuitionOverEightyPercentExcluded ==
    (upc = "scored" /\ TruthyInt(u_program.tuition_yearly_min_myr)
       /\ 10 * u_program.tuition_yearly_min_myr > 8 * (OrZero(u_profile.budget_monthly) * 12)) =>
        u_option = <<>>

\* C22, amended: a program that declares a tuition minimum is excluded
\* whenever the student's annualized budget (budget_monthly x 12) is below
\* 80% of that tuition minimum, the 80% cut to a whole number; no result
\* holds an option of such a program.
BudgetUnderEightyPercentExcluded ==
    LET FarShort(program, profile) ==
            /\ TruthyInt(program.tuition_yearly_min_myr)
            /\ OrZero(profile.budget_monthly) * 12 < (program.tuition_yearly_min_myr * 8) \div 10
        NoneFarShort(options, programs, profile) ==
            \A j \in DOMAIN options : \A k \in DOMAIN programs :
                FarShort(programs[k], profile) => options[j].program_code # programs[k].program_code
    IN  /\ (upc = "scored" /\ FarShort(u_program, u_profile)) => u_option = <<>>
        /\ upc = "listed" => NoneFarShort(u_options, u_programs, u_profile)
        /\ pc = "done" =>
              /\ NoneFarShort(result.top_university_options, university_programs, student_input)
              /\ \A j \in DOMAIN result.recommendations :
                    NoneFarShort(result.recommendations[j].university_options,
                                 university_programs, student_input)

\* A budget one unit a month under 80% of the tuition minimum: the program
\* was excluded, and the same program is kept at exactly 80%.
ExcludedJustUnderEightyPercent ==
    /\ upc = "scored"
    /\ u_program.tuition_yearly_min_myr = 12000 /\ u_profile.budget_monthly = 799
    /\ u_option = <<>>
    /\ _score_university_option(u_program, [u_profile EXCEPT !.budget_monthly = 800],
                                _norm_set(_as_list(u_tags)), current_month) # <<>>

UniversityDestinationFilter ==
    LET Selected(profile) ==
            {Lower(Strip(profile.destination_tags[k])) : k \in DOMAIN profile.destination_tags}
        Allowed(country, profile) ==
            /\ profile.destination_preference = "malaysia_only" => Lower(country) = "malaysia"
            /\ profile.destination_preference = "open_overseas" =>
                  (Lower(country) = "malaysia" \/ Lower(country) \in Selected(profile))
        AllAllowed(options, profile) ==
            \A k \in DOMAIN options : Allowed(options[k].country, profile)
    IN  /\ upc = "scored" =>
              /\ u_option # <<>> => Allowed(u_option[1].country, u_profile)
              /\ (u_program.country # NoneStr /\ ~Allowed(u_program.country, u_profile))
                    => u_option = <<>>
        /\ upc = "listed" => AllAllowed(u_options, u_profile)
        /\ pc = "done" =>
              /\ AllAllowed(result.top_university_options, student_input)
              /\ \A k \in DOMAIN result.recommendations :
                    AllAllowed(result.recommendations[k].university_options, student_input)

\* A program in a country the student did not select is left out under
\* open_overseas, where the same program in Malaysia is returned.
ProgramAbroadExcluded ==
    /\ upc = "scored" /\ u_profile.destination_preference = "open_overseas"
    /\ u_profile.destination_tags = <<"Australia", "UK">>
    /\ u_program.country = "Singapore"
    /\ u_option = <<>>
    /\ _score_university_option([u_program EXCEPT !.country = "Malaysia"], u_profile,
                                _norm_set(_as_list(u_tags)), current_month) # <<>>

\* A profile whose student_level is absent or neither SPM nor Diploma.
UnrecognizedLevel(profile) == profile.student_level \notin {"SPM", "Diploma"}

\* C25 as first stated: for a profile whose student_level is absent or not
\* SPM/Diploma, every rule whose student_level is SPM or Diploma is rejected
\* with exactly "Student level mismatch", the academic readiness part is 0,
\* score_academic contributes 0, and the result is the no-match result with
\* a recovery plan.
UnrecognizedLevelAllMismatch ==
    /\ (pc = "gating" /\ i > 1 /\ UnrecognizedLevel(student_input)
          /\ rules[i - 1].student_level \in {"SPM", "Diploma"}) =>
          (~gate.passed /\ gate.missing = << <<"Student level mismatch">> >>)
    /\ (pc = "done" /\ UnrecognizedLevel(student_input)) =>
          /\ result.no_match /\ result.recommendations = <<>>
          /\ result.recovery_plan # <<>>
          /\ result.readiness.breakdown.academic = 0
    /\ (fpc \in {"gated", "scored", "ready"} /\ UnrecognizedLevel(fn_profile)
          /\ fn_rule.student_level \in {"SPM", "Diploma"}) =>
          (~fn_out.gate.passed /\ fn_out.gate.missing = << <<"Student level mismatch">> >>)
    /\ (fpc \in {"scored", "ready"} /\ UnrecognizedLevel(fn_profile)) =>
          (fn_out.academic.score = 0 /\ fn_out.fit.component_scores.academic = 0)
    /\ (fpc = "ready" /\ UnrecognizedLevel(fn_profile)) =>
          fn_out.readiness.breakdown.academic = 0

\* C25: for a profile whose student_level is absent or not SPM/Diploma,
\* evaluate_rules returns a result; every active rule whose student_level is
\* SPM or Diploma is rejected with exactly "Student level mismatch" (an
\* inactive one with exactly "Rule inactive"), the academic readiness part
\* is 0, score_academic contributes 0, and the result is the no-match result
\* with a recovery plan.
UnrecognizedLevelNoMatch ==
    LET Rejection(rule) ==
            IF rule.active THEN << <<"Student level mismatch">> >> ELSE << <<"Rule inactive">> >>
    IN  /\ (pc = "gating" /\ i > 1 /\ UnrecognizedLevel(student_input)
              /\ rules[i - 1].student_level \in {"SPM", "Diploma"}) =>
              (~gate.passed /\ gate.missing = Rejection(rules[i - 1]))
        /\ (pc \in {"scoring", "matching"}) => ~UnrecognizedLevel(student_input)
        /\ (pc = "ranked" /\ UnrecognizedLevel(student_input)) =>
              (eligible = <<>> /\ Len(rejection_reasons) = Len(rules))
        /\ (pc = "done" /\ UnrecognizedLevel(student_input)) =>
              /\ result.no_match /\ result.recommendations = <<>>
              /\ result.recovery_plan # <<>>
              /\ result.readiness.breakdown.academic = 0
        /\ (fpc \in {"gated", "scored", "ready"} /\ UnrecognizedLevel(fn_profile)
              /\ fn_rule.student_level \in {"SPM", "Diploma"}) =>
              (~fn_out.gate.passed /\ fn_out.gate.missing = Rejection(fn_rule))
        /\ (fpc \in {"scored", "ready"} /\ UnrecognizedLevel(fn_profile)) =>
              (fn_out.academic.score = 0 /\ fn_out.fit.component_scores.academic = 0)
        /\ (fpc = "ready" /\ UnrecognizedLevel(fn_profile)) =>
              fn_out.readiness.breakdown.academic = 0

\* A call for a profile with no student_level on an active and an inactive
\* rule has returned the no-match result, one reason for each rule.
UnrecognizedLevelReturned ==
    /\ pc = "done" /\ UnrecognizedLevel(student_input)
    /\ \E a, b \in DOMAIN rules : rules[a].active /\ ~rules[b].active
    /\ result.no_match /\ result.recovery_plan # <<>>
    /\ <<"Student level mismatch">> \in Range(rejection_reasons)
    /\ <<"Rule inactive">> \in Range(rejection_reasons)

\* The steps of one call in their order: the rules are taken one by one, a
\* rule is scored only in the step after its gate passed it, the ranking
\* follows the last rule, and the call ends in the recovery result (no rule
\* passed) or, through the matching, in the result with recommendations.
PassStep ==
    \/ (pc = "idle" /\ pc' = "gating" /\ i' = 1)
    \/ (pc = "gating" /\ pc' = "gating" /\ i <= Len(rules) /\ i' = i + 1
          /\ ~gate'.passed /\ eligible' = eligible)
    \/ (pc = "gating" /\ pc' = "scoring" /\ i <= Len(rules) /\ i' = i
          /\ gate'.passed /\ gate' = evaluate_rule_gate(rules[i], student_input))
    \/ (pc = "scoring" /\ pc' = "gating" /\ i' = i + 1 /\ gate.passed
          /\ Len(eligible') = Len(eligible) + 1
          /\ eligible'[Len(eligible')].rule_id = rules[i].rule_id)
    \/ (pc = "gating" /\ pc' = "ranked" /\ i = Len(rules) + 1 /\ i' = i
          /\ Len(eligible') = Len(eligible))
    \/ (pc = "ranked" /\ pc' = "done" /\ eligible = <<>> /\ result'.no_match)
    \/ (pc = "ranked" /\ pc' = "matching" /\ eligible # <<>>)
    \/ (pc = "matching" /\ pc' = "done" /\ ~result'.no_match)

\* C26 as first stated: one call is a single pass that ends in RECOVERY or
\* in DONE through gating, scoring, ranking, university matching and action
\* plan in that order, and the action plan of the final result is produced
\* after university matching: no action plan exists before the step that
\* matches the universities and returns.
ActionPlanAfterMatching ==
    [][PassStep /\ ((action_plan = NoPlan /\ action_plan' # NoPlan) => pc' = "done")]_vars

\* C26: one call is a single pass that always ends, in RECOVERY (only if no
\* rule passed) or in DONE; each rule is gate-evaluated exactly once and
\* scored only after passing its gate, no step is repeated; the action plan
\* is built right after the ranking, before university matching, and on the
\* way to DONE only the shortlist items are written into it after the
\* matching, when it returned options.
SinglePass ==
    /\ [][PassStep]_vars
    /\ [][(action_plan = NoPlan /\ action_plan' # NoPlan) => pc = "ranked"]_vars
    /\ [][(pc = "matching" /\ action_plan' # action_plan)
             => (pc' = "done" /\ result'.top_university_options # <<>>)]_vars
    /\ [](pc \in {"ranked", "matching", "done"} =>
             /\ i = Len(rules) + 1
             /\ Len(eligible) + Len(rejection_reasons) = Len(rules))
    /\ [](pc = "done" =>
             /\ action_plan # NoPlan
             /\ result.seven_day_actions = action_plan.seven_day_actions
             /\ result.thirty_day_plan = action_plan.thirty_day_plan)
    /\ <>(pc = "done")

\* A call has ended in DONE after one rule was rejected and another passed,
\* with university options in the result.
PassEndedWithOptions ==
    /\ pc = "done" /\ ~result.no_match
    /\ eligible # <<>> /\ rejection_reasons # <<>>
    /\ result.top_university_options # <<>>
    /\ result.seven_day_actions # build_action_plan(student_input,
                                       AggregateMissing(result.recommendations)).seven_day_actions

\* C27: for every rule and profile, fit_score is the sum of the five
\* component scores (interest, academic, budget, english, constraints), as
\* returned rounded to two decimals, and lies between 0 and the ceiling of
\* 100 = 30 + 25 + 20 + 15 + 10.
FitScoreIsBoundedSum ==
    /\ fpc \in {"scored", "ready"} =>
          /\ fn_out.fit.fit_score =
                Round2(fn_out.interest.score + fn_out.academic.score + fn_out.budget.score
                         + fn_out.english.score + fn_out.constraints.score)
          /\ fn_out.fit.fit_score >= 0
          /\ fn_out.fit.fit_score <= 100 * 100
    /\ \A k \in DOMAIN eligible :
          LET c == eligible[k].component_scores
          IN  /\ eligible[k].fit_score \in 0..(100 * 100)
              \* each published component is rounded on its own
              /\ eligible[k].fit_score - (c.interest + c.academic + c.budget + c.english
                                            + c.constraints) \in -3..3

\* A profile that takes every point of a rule: the fit score is 100.
FitScoreAtCeiling ==
    /\ fpc = "scored"
    /\ fn_out.fit.fit_score = 100 * 100
    /\ fn_out.interest.score = 30 * Scale /\ fn_out.academic.score = 25 * Scale
    /\ fn_out.budget.score = 20 * Scale /\ fn_out.english.score = 15 * Scale
    /\ fn_out.constraints.score = 10 * Scale

\* C28 as first stated: every rule that passes evaluate_rule_gate gets a
\* budget component of at least 10, so no recommendation carries the missing
\* condition "Budget significantly below pathway cost".
GateAndScorerAgreeOnBudget ==
    /\ (fpc \in {"scored", "ready"} /\ fn_out.gate.passed) =>
          /\ fn_out.budget.score >= 10 * Scale
          /\ <<"Budget significantly below pathway cost">> \notin Range(fn_out.budget.missing)
    /\ \A k \in DOMAIN eligible :
          /\ eligible[k].component_scores.budget >= 10 * 100
          /\ <<"Budget significantly below pathway cost">>
                \notin Range(eligible[k].explanation.missing_conditions)

\* C28: a rule that passes evaluate_rule_gate gets a budget component of at
\* least 10 when the rule has no budget_min or the budget is at least 85% of
\* it; with a budget of at least 80% and under 85% of budget_min the rule
\* passes the gate and gets the budget component 2 with the missing
\* condition "Budget significantly below pathway cost", which its
\* recommendation then carries.
BudgetComponentOfPassingRule ==
    LET Far == <<"Budget significantly below pathway cost">>
        Band(rule, profile) ==
            /\ rule.budget_min # NoneInt /\ rule.budget_min # 0
            /\ 100 * OrZero(profile.budget_monthly) < 85 * rule.budget_min
    IN  /\ (fpc \in {"scored", "ready"} /\ fn_out.gate.passed) =>
              IF Band(fn_rule, fn_profile)
              THEN /\ 100 * OrZero(fn_profile.budget_monthly) >= 80 * fn_rule.budget_min
                   /\ fn_out.budget.score = 2 * Scale
                   /\ Far \in Range(fn_out.budget.missing)
                   /\ Far \in Range(fn_out.fit.explanation.missing_conditions)
              ELSE /\ fn_out.budget.score >= 10 * Scale
                   /\ Far \notin Range(fn_out.fit.explanation.missing_conditions)
        /\ \A k \in DOMAIN eligible :
              LET rule == CHOOSE r \in Range(rules) : r.rule_id = eligible[k].rule_id
              IN  IF Band(rule, student_input)
                  THEN /\ eligible[k].component_scores.budget = 2 * 100
                       /\ Far \in Range(eligible[k].explanation.missing_conditions)
                  ELSE /\ eligible[k].component_scores.budget >= 10 * 100
                       /\ Far \notin Range(eligible[k].explanation.missing_conditions)

\* A call has returned a recommendation for a budget of 81% of the rule's
\* budget_min: borderline at the gate, missing at the scorer.
RecommendedWithBudgetFarBelow ==
    /\ pc = "done" /\ ~result.no_match
    /\ \E k \in DOMAIN result.recommendations :
          /\ result.recommendations[k].component_scores.budget = 2 * 100
          /\ <<"Budget slightly below pathway minimum">>
                \in Range(result.recommendations[k].explanation.borderline_conditions)
          /\ <<"Budget significantly below pathway cost">>
                \in Range(result.recommendations[k].explanation.missing_conditions)

\* C29: no inactive rule contributes to any result: a rule with active ==
\* False is never among the recommendations, and every entry of
\* recovery_plan.alternative_local_pathways is the pathway of an active
\* rule.
InactiveRuleNeverContributes ==
    pc = "done" =>
        /\ \A k \in DOMAIN result.recommendations :
              \E j \in DOMAIN rules :
                  rules[j].active /\ rules[j].rule_id = result.recommendations[k].rule_id
        /\ result.recovery_plan # <<>> =>
              LET alternatives == result.recovery_plan[1].alternative_local_pathways
              IN  \A k \in DOMAIN alternatives :
                      \E j \in DOMAIN rules :
                          /\ rules[j].active
                          /\ rules[j].pathway_title = alternatives[k].pathway_title
                          /\ rules[j].pathway_summary = alternatives[k].summary

\* C30: in the result of evaluate_rules, whenever a missing reason fed to
\* the action plan (the missing_conditions of the returned recommendations,
\* or the rejection reasons of a call without a match) mentions "English",
\* seven_day_actions holds "Take a free English placement test and set a
\* target score.", also when university matches exist and the shortlist
\* actions are written into the plan.
EnglishPlacementItemKept ==
    pc = "done" =>
        LET fed == IF result.no_match THEN rejection_reasons
                   ELSE AggregateMissing(result.recommendations)
        IN  (\E k \in DOMAIN fed : MentionsEnglish(fed[k])) =>
                <<"Take a free English placement test and set a target score.">>
                    \in Range(result.seven_day_actions)
====
